---- MODULE Spec2Model ----
(***************************************************************************)
(* Acquisition pipeline of the home-monitoring logger:                     *)
(*   src/logger/modbus.py       ModbusTCPClient, parse_register_data       *)
(*   src/logger/loggerpcv01.py  planner, validator, device reader, poll    *)
(*                              loop                                       *)
(* The specifications of the module:                                       *)
(*   Spec         the poll loop of modbus_logger with the health-check     *)
(*                task interleaved,                                        *)
(*   SpecSession  ModbusTCPClient driven by arbitrary calls against a      *)
(*                gateway that may answer late, partially or wrongly,      *)
(*   SpecCounter  the transaction counter near its wrap,                   *)
(*   SpecLate     the session called at the pace of the poll loop, with    *)
(*                replies that come after their request timed out,         *)
(*   SpecFrame    one call answered by a header and part of a body,        *)
(*   SpecPlanner  group_contiguous_registers and the group filter of       *)
(*                read_meter on drawn parameter lists,                     *)
(*   SpecDecode   parse_register_data and the member loop of               *)
(*                read_register_group on drawn bytes,                      *)
(*   SpecProcess  the restart loop of the __main__ block.                  *)
(***************************************************************************)
EXTENDS Integers, Sequences, FiniteSets, TLC

VARIABLES
    \* ModbusTCPClient (the global `client`)
    sock,              \* self.sock is not None
    connected,         \* self._connected
    transaction_id,    \* self.transaction_id
    stream,            \* bytes the gateway has sent on this connection, not yet received
    last,              \* what the latest read_registers call did (history)
    reads,             \* number of read_registers calls made (history, bounded)
    rx,                \* the bytes on the socket while the latest call of SpecSession
                       \* or SpecFrame waited, and how many came in time (history)
    \* Register Planner run on a drawn input (SpecPlanner)
    pl_pc,             \* "start" before the first call, then "planned"
    pl_orig,           \* the parameter list as first given
    pl_paramlist,      \* the parameter list, possibly reordered
    pl_gap,            \* max_gap
    pl_base,           \* the groups planned from pl_orig
    pl_groups,         \* the groups planned from pl_paramlist
    pl_filter,         \* "none", or which filtered list read_meter derived: "instant", "full"
    pl_filtered,       \* the filtered group list
    \* modbus_logger (the poll task)
    pc,                \* where the poll task is: "cycle", "meter", "end"
    now,               \* the clock, in seconds
    unix_time,         \* unix_time of the cycle
    current_minute,    \* current_minute of the cycle
    read_minute_data,  \* read_minute_data of the cycle
    last_minute_storage,
    mi,                \* index in arrayMeterName of the meter being read
    gi,                \* index of the register group being read
    attempt,           \* attempt of the retry loop of read_meter
    readings,          \* readings of read_meter so far
    \* history of the poll task
    cycles,            \* iterations of the poll loop started
    deliveries,        \* send_meter_reading calls of this cycle, in order
    minuteSent,        \* <<meter, minute>> -> minute deliveries made with that timestamp
    cycleLog,          \* meter -> the Reading and verdict of this cycle
    glog,              \* group index -> the reads made for it for the current meter
    \* the process (__main__) and the health-check task
    ppc,               \* where the process is: "import", "main", "restart", "cycle",
                       \* "backoff", "exited"
    status_error,      \* status['error']
    streak,            \* failures of main() since the last completed cycle (history)
    dropped,           \* sockets created and let go without close(), counted up to
                       \* MaxDropped (history)
    exit_how,          \* "none", or how the process ended: "traceback", "exit1",
                       \* "interrupt" (history)
    hpc,               \* where health_check_worker is: "check" or "sleep"
    \* the Value Decoder and the group parser run on a drawn input (SpecDecode)
    dc_pc,             \* "idle", then "span" or "group": what was run
    dc_data,           \* the byte span, or the data of the group reply
    dc_type,           \* datatype given to parse_register_data
    dc_endian,         \* endian given to parse_register_data
    dc_reordered,      \* the reordered buffer of parse_register_data
    dc_value,          \* what parse_register_data returned
    dc_group,          \* the group whose reply was parsed
    dc_results,        \* results of read_register_group
    \* the session under the timing of the poll loop (SpecLate)
    lt_pos,            \* 1 + the read_registers calls made in this cycle
    lt_good,           \* the gateway has come to answer every request in time
    lt_due,            \* a request was made since then: what is pending on the
                       \* socket arrives within the timeout of that request
    lt_gotData,        \* a call made since then returned data (history)
    lt_stale           \* a call made since then met a reply left over (history)

sessVars == <<sock, connected, transaction_id, stream, last, reads, rx>>
planVars == <<pl_pc, pl_orig, pl_paramlist, pl_gap, pl_base, pl_groups, pl_filter,
              pl_filtered>>

pollVars == <<pc, now, unix_time, current_minute, read_minute_data, last_minute_storage,
              mi, gi, attempt, readings, cycles, deliveries, minuteSent, cycleLog, glog>>

procVars == <<ppc, status_error, streak, dropped, exit_how, hpc>>

decVars == <<dc_pc, dc_data, dc_type, dc_endian, dc_reordered, dc_value, dc_group,
             dc_results>>

lateVars == <<lt_pos, lt_good, lt_due, lt_gotData, lt_stale>>

vars == <<sessVars, planVars, pollVars, procVars, decVars, lateVars>>

----------------------------------------------------------------------------
\* Bounds of the model

\* read_registers calls explored in SpecSession
MaxReads == 2
\* unread gateway bytes beyond which the gateway sends nothing more
MaxStream == 11
\* longest parameter list given to the planner in SpecPlanner
MaxParams == 3
\* iterations of the poll loop explored in Spec
MaxCycles == 2
\* largest max_gap given to the planner in SpecPlanner
MaxGap == 3

\* sockets let go without close() that are counted in SpecProcess
MaxDropped == 2

\* the clock when the first cycle reads it
StartTime == 601

----------------------------------------------------------------------------
\* Generic helpers

Min(a, b) == IF a < b THEN a ELSE b
Max(a, b) == IF a > b THEN a ELSE b

\* Python slice s[lo:hi] of a sequence, 0-based, clipped like Python's
Slice(s, lo, hi) ==
    LET h == Min(hi, Len(s))
    IN  IF lo >= h THEN <<>> ELSE SubSeq(s, lo + 1, h)

\* s[n:]
Drop(s, n) == Slice(s, n, Len(s))

----------------------------------------------------------------------------
\* ModbusTCPClient

\* Optional[bytes]: None, or the bytes
NoData == [ok |-> FALSE, data |-> <<>>]
Data(b) == [ok |-> TRUE, data |-> b]

\* is_open property
is_open(s) == s.connected /\ s.sock

\* the request frame of read_registers: MBAP header and PDU
Request(tid, unit_id, function_code, start_address, count) ==
    << (tid \div 256) % 256, tid % 256, 0, 0, 0, 5 + 1, unit_id,
       function_code,
       (start_address \div 256) % 256, start_address % 256,
       (count \div 256) % 256, count % 256 >>

\* close()
close(s) ==
    IF s.sock THEN [s EXCEPT !.sock = FALSE, !.connected = FALSE] ELSE s

\* a failed connect that keeps the socket it made
connect_KeepSock(ok) ==
    [sock |-> TRUE, connected |-> ok, tid |-> 0, stream |-> <<>>]

\* __init__ followed by connect(); ok is whether the TCP connect succeeds
connect(ok) ==
    [sock |-> ok, connected |-> ok, tid |-> 0, stream |-> <<>>]

\* What one read_registers call leaves behind. s is the client with the
\* stream of its connection. e are the inputs of the environment:
\*   e.drain   bytes that have arrived when the buffer is cleared before sending
\*   e.sendOk  whether sendall succeeds
\*   e.reply   bytes the gateway sends after the request
\*   e.arrive  bytes that arrive before the receive deadlines of this call
\* the buffer left as it is
clear_socket_buffer_None(pending, arrived) == pending

\* lines 206-225, _clear_socket_buffer: of the bytes pending on the socket
\* those that have arrived are read and thrown away
clear_socket_buffer(pending, arrived) == Drop(pending, Min(arrived, Len(pending)))

\* the call goes on without a socket
NotConnected_Never(s) == FALSE

\* lines 72-73: `if not self.sock: return None`
NotConnected(s) == ~s.sock

\* the counter without the wrap
NextTid_NoWrap(t) == t + 1

\* line 80: self.transaction_id = (self.transaction_id + 1) % 65536
NextTid(t) == (t + 1) % 65536

\* the check of the transaction id left out
TidMatches_Any(recv_trans_id, tid) == TRUE

\* line 129: the echoed transaction id is the one just sent
TidMatches(recv_trans_id, tid) == recv_trans_id = tid

\* line 154: the function-code byte has its high bit set
IsExceptionFrame(fc_byte) == (fc_byte \div 128) % 2 = 1

\* line 160: the echoed function code is the requested one
FcMatches(fc_byte, function_code) == fc_byte = function_code

\* lines 173-181: what an exception raised inside the try block does to the client
OnSocketError(s) == close(s)

\* recv(1024) in place of recv(size - len(data)): all that has come is taken
recv_exact_Greedy(pending, size) == pending

\* lines 183-204, _recv_exact: of the bytes that come before the timeout, the
\* first `size` at most
recv_exact(pending, size) == Slice(pending, 0, size)

read_registers(s, unit_id, function_code, start_address, count, e) ==
    LET base == [sock |-> s.sock, connected |-> s.connected, tid |-> s.tid,
                 stream |-> s.stream, ret |-> NoData, outcome |-> "no_sock",
                 sent |-> FALSE, request |-> <<>>, rxTid |-> -1, rxFc |-> -1,
                 consumed |-> 0, remaining |-> 0]
    IN
    IF NotConnected(s) THEN base
    ELSE
    LET cleared == clear_socket_buffer(s.stream, e.drain)
        tid     == NextTid(s.tid)
        req     == Request(tid, unit_id, function_code, start_address, count)
        b1      == [base EXCEPT !.tid = tid, !.stream = cleared, !.request = req]
    IN
    IF ~e.sendOk
    THEN \* sendall raises: except clause closes the socket
         LET c == OnSocketError(b1)
         IN  [b1 EXCEPT !.sock = c.sock, !.connected = c.connected,
                        !.outcome = "send_error"]
    ELSE
    LET wire    == cleared \o e.reply
        n       == Min(e.arrive, Len(wire))
        header  == recv_exact(Slice(wire, 0, n), 7)
        b2      == [b1 EXCEPT !.sent = TRUE]
    IN
    IF Len(header) < 7
    THEN [b2 EXCEPT !.stream = Drop(wire, Len(header)), !.outcome = "short_header",
                    !.consumed = Len(header)]
    ELSE
    LET recv_trans_id == header[1] * 256 + header[2]
        length        == header[5] * 256 + header[6]
        remaining     == length - 1
        b3            == [b2 EXCEPT !.rxTid = recv_trans_id, !.consumed = 7,
                                    !.remaining = remaining]
    IN
    IF ~TidMatches(recv_trans_id, tid)
    THEN \* the buffer is cleared again: everything that has arrived goes
         [b3 EXCEPT !.stream = clear_socket_buffer(Drop(wire, 7), n - 7),
                    !.outcome = "tid_mismatch"]
    ELSE IF remaining <= 0
    THEN [b3 EXCEPT !.stream = Drop(wire, 7), !.outcome = "bad_length"]
    ELSE
    LET pdu_response == recv_exact(Slice(wire, 7, n), remaining)
        b4 == [b3 EXCEPT !.stream = Drop(wire, 7 + Len(pdu_response)),
                         !.consumed = 7 + Len(pdu_response)]
    IN
    IF Len(pdu_response) < remaining
    THEN [b4 EXCEPT !.outcome = "short_pdu"]
    ELSE
    LET b5 == [b4 EXCEPT !.rxFc = pdu_response[1]]
    IN
    IF IsExceptionFrame(pdu_response[1])
    THEN [b5 EXCEPT !.outcome = "exception"]
    ELSE IF ~FcMatches(pdu_response[1], function_code)
    THEN [b5 EXCEPT !.outcome = "fc_mismatch"]
    ELSE IF Len(pdu_response) > 2
    THEN [b5 EXCEPT !.outcome = "data",
                    !.ret = Data(Slice(pdu_response, 2, 2 + pdu_response[2]))]
    ELSE [b5 EXCEPT !.outcome = "no_payload"]

----------------------------------------------------------------------------
\* Value Decoder (modbus.py, parse_register_data)
\*
\* A decoded number is kept in thousandths, which is what round(x, 3) of the
\* caller leaves of it: Num(m) is m/1000. A number of magnitude 2^21 or more
\* is kept as Big (its sign only), an IEEE infinity as Inf, a NaN as NaN.

\* x tells whether m/1000 is the number itself or the number rounded.
Num(m) == [k |-> "num", m |-> m, x |-> TRUE]
Rounded(m, exact) == [k |-> "num", m |-> m, x |-> exact]
Big(sign) == [k |-> "big", m |-> sign, x |-> TRUE]
Inf(sign) == [k |-> "inf", m |-> sign, x |-> TRUE]
NaN == [k |-> "nan", m |-> 0, x |-> TRUE]
\* Python's None in place of a value
NoValue == [k |-> "none", m |-> 0, x |-> TRUE]

\* 2^21: the magnitude from which a number is kept as Big
BigFrom == 2097152

RECURSIVE Pow2(_)
Pow2(n) == IF n = 0 THEN 1 ELSE 2 * Pow2(n - 1)

\* the integer v as a value
FromInt(v) == IF v >= BigFrom THEN Big(1)
              ELSE IF v <= -BigFrom THEN Big(-1)
              ELSE Num(v * 1000)

\* q / 2^shift rounded to the nearest integer, ties to even; 0 <= q < 2^31
RoundHalfEven(q, shift) ==
    IF shift = 0 THEN q
    ELSE IF shift >= 31 THEN (IF shift = 31 /\ q > 1073741824 THEN 1 ELSE 0)
    ELSE LET d    == Pow2(shift)
             fl   == q \div d
             r    == q % d
             half == d \div 2
         IN  IF r > half THEN fl + 1
             ELSE IF r < half THEN fl
             ELSE IF fl % 2 = 0 THEN fl ELSE fl + 1

\* whether q / 2^shift is a whole number; 0 < q < 2^31
IsWhole(q, shift) == shift = 0 \/ (shift < 31 /\ q % Pow2(shift) = 0)

\* struct.unpack('>f', b)[0], kept in thousandths: IEEE-754 single
\* precision, big-endian
UnpackFloat(b) ==
    LET sign == IF b[1] >= 128 THEN -1 ELSE 1
        exp  == (b[1] % 128) * 2 + (b[2] \div 128)
        mant == (b[2] % 128) * 65536 + b[3] * 256 + b[4]
    IN  IF exp = 255 THEN (IF mant = 0 THEN Inf(sign) ELSE NaN)
        ELSE IF exp = 0 THEN Rounded(0, mant = 0)
        ELSE LET x == exp - 127
                 q == (8388608 + mant) * 125
             IN  IF x >= 21 THEN Big(sign)
                 ELSE Rounded(sign * RoundHalfEven(q, 20 - x), IsWhole(q, 20 - x))

\* the unsigned big-endian integer of the bytes, -1 when it is 2^21 or more
RECURSIVE UnsignedOf(_)
UnsignedOf(b) ==
    IF b = <<>> THEN 0
    ELSE LET hi == UnsignedOf(SubSeq(b, 1, Len(b) - 1))
         IN  IF hi < 0 \/ hi >= BigFrom \div 256 THEN -1
             ELSE hi * 256 + b[Len(b)]

\* lines 286-292: datatype 'int'
UnpackInt(b) ==
    LET v == UnsignedOf(b) IN IF v < 0 THEN Big(1) ELSE Num(v * 1000)

\* struct.unpack('>b'), ('>h'), ('>i'): two's complement of 1, 2 or 4 bytes
UnpackSigned(b) ==
    IF b[1] < 128 THEN UnpackInt(b)
    ELSE LET inv == UnsignedOf([i \in 1 .. Len(b) |-> 255 - b[i]])
         IN  IF inv < 0 \/ inv + 1 >= BigFrom THEN Big(-1) ELSE Num(-(inv + 1) * 1000)

\* str(endian): the decimal digits of a non-negative integer
RECURSIVE DigitsOf(_)
DigitsOf(n) == IF n < 10 THEN <<n>> ELSE Append(DigitsOf(n \div 10), n % 10)

\* the bytes left in the order they came
EndianDigits_Identity(byte_count, endian) == [i \in 1 .. byte_count |-> i - 1]

\* lines 254-270: the source position of each output byte, 0-based
EndianDigits(byte_count, endian) ==
    LET endian_str == DigitsOf(endian)
    IN  IF byte_count \in {2, 4, 8} /\ Len(endian_str) >= byte_count
        THEN [i \in 1 .. byte_count |-> endian_str[i] - 1]
        ELSE [i \in 1 .. byte_count |-> i - 1]

\* lines 252, 272-274: the reordered buffer; a position past the span leaves
\* the zero the buffer was made with, position -1 is Python's last byte
Reorder(data, endian) ==
    LET byte_count == Len(data)
        endian_digits == EndianDigits(byte_count, endian)
    IN  [i \in 1 .. byte_count |->
            LET pos == endian_digits[i]
            IN  IF pos >= byte_count THEN 0
                ELSE IF pos < 0 THEN data[byte_count + pos + 1]
                ELSE data[pos + 1]]

\* the value -999 that parse_register_data returns on error
Sentinel == Num(-999000)

\* lines 228-311
parse_register_data(data, datatype, endian) ==
    IF data = <<>> THEN Sentinel
    ELSE LET byte_count == Len(data)
             reordered == Reorder(data, endian)
         IN  IF datatype = "float"
             THEN IF byte_count >= 4 THEN UnpackFloat(SubSeq(reordered, 1, 4))
                  ELSE Sentinel
             ELSE IF datatype = "int" THEN UnpackInt(reordered)
             ELSE IF datatype = "sint"
             THEN IF byte_count = 2 THEN UnpackSigned(SubSeq(reordered, 1, 2))
                  ELSE IF byte_count >= 4 THEN UnpackSigned(SubSeq(reordered, 1, 4))
                  ELSE IF byte_count = 1 THEN UnpackSigned(SubSeq(reordered, 1, 1))
                  ELSE Sentinel
             ELSE Sentinel

\* line 211 of read_register_group: value == -999
IsSentinel(value) == value = Sentinel

\* line 217: round(float(value) * multiplier, 3), for the multiplier 1
Scaled(value, multiplier) ==
    IF value.k # "num" THEN value ELSE Num(value.m * multiplier)

----------------------------------------------------------------------------
\* Register Planner (loggerpcv01.py)

MINUTE_INTERVAL_PARAMS ==
    { "Import Active Energy", "Export Active Energy", "Import Reactive Energy",
      "Export Reactive Energy", "Power Demand", "Maximum Power Demand",
      "Current Demand", "Maximum Current Demand" }

\* lines 80-90: the parameters of paramlist that have a spec with an address,
\* in list order. paraminfo is a function on the names that have a spec.
RECURSIVE ParamsWithAddr(_, _)
ParamsWithAddr(paramlist, paraminfo) ==
    IF paramlist = <<>> THEN <<>>
    ELSE LET name == Head(paramlist)
             rest == ParamsWithAddr(Tail(paramlist), paraminfo)
         IN  IF name \in DOMAIN paraminfo
             THEN << [name |-> name, address |-> paraminfo[name].id,
                      size |-> paraminfo[name].size, type |-> paraminfo[name].type,
                      endian |-> paraminfo[name].endian, mul |-> paraminfo[name].mul,
                      offset |-> 0] >> \o rest
             ELSE rest

\* insertion of p into a list sorted by address, after the entries with an
\* equal address (list.sort is stable)
RECURSIVE InsertByAddress(_, _)
InsertByAddress(sorted, p) ==
    IF sorted = <<>> THEN <<p>>
    ELSE IF Head(sorted).address <= p.address
         THEN <<Head(sorted)>> \o InsertByAddress(Tail(sorted), p)
         ELSE <<p>> \o sorted

\* the sort left out: the parameters are walked in list order
SortByAddress_ListOrder(ps) == ps

\* line 96: params_with_addr.sort(key=lambda x: x['address'])
RECURSIVE SortByAddress(_)
SortByAddress(ps) ==
    IF ps = <<>> THEN <<>>
    ELSE InsertByAddress(SortByAddress(SubSeq(ps, 1, Len(ps) - 1)), ps[Len(ps)])

\* the comparison off by one: a parameter exactly max_gap past the end is split off
JoinsGroup_Strict(addr, end_addr, max_gap) == addr < end_addr + max_gap

\* line 113: the parameter joins the current group
JoinsGroup(addr, end_addr, max_gap) == addr <= end_addr + max_gap

\* lines 108-112, 120-124: a new group holding one parameter
NewGroup(param) ==
    [start_addr |-> param.address, end_addr |-> param.address + param.size,
     count |-> 0, params |-> <<param>>]

\* lines 115-116: the current group with one more parameter
ExtendGroup(g, param) ==
    [g EXCEPT !.params = Append(g.params, param),
              !.end_addr = Max(g.end_addr, param.address + param.size)]

\* lines 99-128: the walk over the sorted parameters; groups holds the closed
\* groups and, last, the current one
RECURSIVE WalkGroups(_, _, _)
WalkGroups(ps, groups, max_gap) ==
    IF ps = <<>> THEN groups
    ELSE LET param == Head(ps)
         IN  IF groups = <<>>
             THEN WalkGroups(Tail(ps), <<NewGroup(param)>>, max_gap)
             ELSE LET cur == groups[Len(groups)]
                  IN  IF JoinsGroup(param.address, cur.end_addr, max_gap)
                      THEN WalkGroups(Tail(ps),
                                      [groups EXCEPT ![Len(groups)] = ExtendGroup(cur, param)],
                                      max_gap)
                      ELSE WalkGroups(Tail(ps), Append(groups, NewGroup(param)), max_gap)

\* line 132
GroupCount(g) == g.end_addr - g.start_addr

\* the offset taken from address 0 instead of from the start of the group
ParamOffset_Absolute(param, g) == param.address

\* line 134
ParamOffset(param, g) == param.address - g.start_addr

\* lines 131-134: count of the group and offset of each member
Finalize(g) ==
    [g EXCEPT !.count = GroupCount(g),
              !.params = [i \in 1 .. Len(g.params) |->
                            [g.params[i] EXCEPT !.offset = ParamOffset(g.params[i], g)]]]

\* lines 63-136
group_contiguous_registers(paramlist, paraminfo, max_gap) ==
    IF paramlist = <<>> THEN <<>>
    ELSE LET params_with_addr == ParamsWithAddr(paramlist, paraminfo)
         IN  IF params_with_addr = <<>> THEN <<>>
             ELSE LET groups == WalkGroups(SortByAddress(params_with_addr), <<>>, max_gap)
                  IN  [i \in 1 .. Len(groups) |-> Finalize(groups[i])]

\* lines 301-304 of read_meter: the parameters read in this cycle
IsActive(p, read_minute_params) == p \notin MINUTE_INTERVAL_PARAMS \/ read_minute_params

active_params(paramlist, read_minute_params) ==
    SelectSeq(paramlist, LAMBDA p : IsActive(p, read_minute_params))

SeqToSet(s) == { s[i] : i \in 1 .. Len(s) }

\* lines 309-317 of read_meter: the cached groups cut down to the active
\* parameters; a group left without members is dropped
RECURSIVE FilterGroups(_, _)
FilterGroups(register_groups, active) ==
    IF register_groups = <<>> THEN <<>>
    ELSE LET group == Head(register_groups)
             filtered_params == SelectSeq(group.params, LAMBDA p : p.name \in SeqToSet(active))
             rest == FilterGroups(Tail(register_groups), active)
         IN  IF filtered_params # <<>>
             THEN << [start_addr |-> group.start_addr, count |-> group.count,
                      params |-> filtered_params] >> \o rest
             ELSE rest

\* the offset taken as a count of bytes
OffsetBytes_Registers(param) == param.offset

\* line 195 of read_register_group: 2 bytes per register
OffsetBytes(param) == param.offset * 2

\* line 196 of read_register_group
SizeBytes(param) == param.size * 2

----------------------------------------------------------------------------
\* The gateway: frames it may put on the connection

MbapHeader(tid, length, unit_id) ==
    << (tid \div 256) % 256, tid % 256, 0, 0, (length \div 256) % 256, length % 256,
       unit_id >>

\* a normal response: function code, byte count, data
ResponseFrame(tid, unit_id, function_code, data) ==
    MbapHeader(tid, 3 + Len(data), unit_id) \o <<function_code, Len(data)>> \o data

\* an exception response: function code with the high bit set, exception code
ExceptionFrame(tid, unit_id, function_code, code) ==
    MbapHeader(tid, 3, unit_id) \o <<function_code + 128, code>>

\* a header whose length field leaves nothing after the unit id
EmptyFrame(tid, unit_id) == MbapHeader(tid, 1, unit_id)

----------------------------------------------------------------------------
\* SpecSession: the client driven by arbitrary calls

SessFcs == {3}
SessCounts == {1}
\* register contents the gateway may return, one 16-bit word as two bytes
SessWords == { <<0, 2>> }

RECURSIVE Repeat(_, _)
Repeat(w, n) == IF n = 0 THEN <<>> ELSE w \o Repeat(w, n - 1)

\* what the gateway may send after a request (tid, fc, count)
SessReplies(tid, fc, count) ==
    { <<>> }
    \cup { ResponseFrame(tid, 1, fc, Repeat(w, count)) : w \in SessWords }
    \cup { ResponseFrame(tid, 1, 7 - fc, Repeat(<<0, 2>>, count)) }
    \cup { ExceptionFrame(tid, 1, fc, 2) }
    \cup { EmptyFrame(tid, 1) }

Client == [sock |-> sock, connected |-> connected, tid |-> transaction_id,
           stream |-> stream]

NoRead == [ret |-> NoData, outcome |-> "none", sent |-> FALSE, request |-> <<>>,
           rxTid |-> -1, rxFc |-> -1, consumed |-> 0, remaining |-> 0,
           function_code |-> 0, count |-> 0, tid |-> 0, wasOpen |-> FALSE,
           openAfter |-> FALSE]

\* the history record of a call that returned r
ReadRecord(r, fc, count, wasOpen) ==
    [ret |-> r.ret, outcome |-> r.outcome, sent |-> r.sent, request |-> r.request,
     rxTid |-> r.rxTid, rxFc |-> r.rxFc, consumed |-> r.consumed,
     remaining |-> r.remaining, function_code |-> fc, count |-> count,
     tid |-> r.tid, wasOpen |-> wasOpen, openAfter |-> is_open(r)]

\* nothing was on the socket
NoWire == [wire |-> <<>>, arrived |-> 0]

\* what is on the socket of client s after the buffer was cleared and the
\* request sent, under the inputs e
WireOf(s, e) ==
    IF ~s.sock \/ ~e.sendOk THEN NoWire
    ELSE LET wire == clear_socket_buffer(s.stream, e.drain) \o e.reply
         IN  [wire |-> wire, arrived |-> Min(e.arrive, Len(wire))]

\* the client before the first connect (loggerpcv01.py line 29: client = None)
ClientInit ==
    /\ sock = FALSE
    /\ connected = FALSE
    /\ transaction_id = 0
    /\ stream = <<>>
    /\ last = NoRead
    /\ reads = 0
    /\ rx = NoWire

\* the planner's variables where the planner is not the subject
PlanIdle ==
    /\ pl_pc = "idle"
    /\ pl_orig = <<>>
    /\ pl_paramlist = <<>>
    /\ pl_gap = 2
    /\ pl_base = <<>>
    /\ pl_groups = <<>>
    /\ pl_filter = "none"
    /\ pl_filtered = <<>>

\* an empty dict
EmptyMap == << >>

\* the poll task before its first cycle
PollInit ==
    /\ pc = "cycle"
    /\ now = StartTime
    /\ unix_time = 0
    /\ current_minute = 0
    /\ read_minute_data = FALSE
    /\ last_minute_storage = 0
    /\ mi = 1
    /\ gi = 1
    /\ attempt = 0
    /\ readings = EmptyMap
    /\ cycles = 0
    /\ deliveries = <<>>
    /\ minuteSent = EmptyMap
    /\ cycleLog = EmptyMap
    /\ glog = EmptyMap

\* the decoder's variables where the decoder is not the subject
DecIdle ==
    /\ dc_pc = "idle"
    /\ dc_data = <<>>
    /\ dc_type = "float"
    /\ dc_endian = 1234
    /\ dc_reordered = <<>>
    /\ dc_value = NoValue
    /\ dc_group = [start_addr |-> 0, count |-> 0, params |-> <<>>]
    /\ dc_results = EmptyMap

\* the timing variables where the timing is not the subject
LateIdle ==
    /\ lt_pos = 1
    /\ lt_good = FALSE
    /\ lt_due = FALSE
    /\ lt_gotData = FALSE
    /\ lt_stale = FALSE

\* the process once modbus_logger has entered its loop
ProcRunning ==
    /\ ppc = "cycle"
    /\ status_error = 0
    /\ streak = 0
    /\ dropped = 0
    /\ exit_how = "none"
    /\ hpc = "check"

SessInit ==
    /\ ClientInit
    /\ PlanIdle
    /\ PollInit
    /\ ProcRunning
    /\ DecIdle
    /\ LateIdle

\* loggerpcv01.py 438-440: a new client object is made and connected
SessConnect ==
    /\ ~is_open(Client)
    /\ \E ok \in BOOLEAN :
         LET c == connect(ok)
         IN  /\ sock' = c.sock
             /\ connected' = c.connected
             /\ transaction_id' = c.tid
             /\ stream' = c.stream
    /\ UNCHANGED <<last, reads, rx>>
    /\ UNCHANGED <<planVars, pollVars, procVars, decVars, lateVars>>

\* the inputs the environment may give one read_registers call on stream st
\* for a request (tid, fc, count): a failed send, or an amount drained, a
\* reply of the gateway and an amount arriving in time
ReadInputs(st, replies) ==
    { [drain |-> 0, sendOk |-> FALSE, reply |-> <<>>, arrive |-> 0] }
    \cup UNION { UNION { { [drain |-> d, sendOk |-> TRUE, reply |-> rp, arrive |-> a] :
                            a \in 0 .. (Len(st) - d + Len(rp)) } :
                          rp \in (IF Len(st) - d > MaxStream THEN { <<>> } ELSE replies) } :
                  d \in 0 .. Len(st) }

\* one read_registers call
SessRead ==
    /\ reads < MaxReads
    /\ \E fc \in SessFcs, count \in SessCounts :
         LET inputs == ReadInputs(stream, SessReplies((transaction_id + 1) % 65536, fc, count))
         IN  \E call \in { <<read_registers(Client, 1, fc, 0, count, e), WireOf(Client, e)>> :
                              e \in inputs } :
               LET r == call[1]
               IN  /\ sock' = r.sock
                   /\ connected' = r.connected
                   /\ transaction_id' = r.tid
                   /\ stream' = r.stream
                   /\ last' = ReadRecord(r, fc, count, sock)
                   /\ rx' = call[2]
    /\ reads' = reads + 1
    /\ UNCHANGED <<planVars, pollVars, procVars, decVars, lateVars>>

\* close() called by the owner of the client
SessClose ==
    /\ is_open(Client)
    /\ LET c == close(Client)
       IN  /\ sock' = c.sock
           /\ connected' = c.connected
    /\ UNCHANGED <<transaction_id, stream, last, reads, rx>>
    /\ UNCHANGED <<planVars, pollVars, procVars, decVars, lateVars>>

SessNext ==
    \/ SessConnect
    \/ SessRead
    \/ SessClose

SpecSession == SessInit /\ [][SessNext]_vars

----------------------------------------------------------------------------
\* SpecCounter: a connected session whose counter stands at the start or just
\* before the wrap

\* requests already made on the session when it is first looked at
CounterStarts == {0, 65534, 65535}

CounterInit ==
    /\ sock = TRUE
    /\ connected = TRUE
    /\ transaction_id \in CounterStarts
    /\ stream = <<>>
    /\ last = NoRead
    /\ reads = 0
    /\ rx = NoWire
    /\ PlanIdle
    /\ PollInit
    /\ ProcRunning
    /\ DecIdle
    /\ LateIdle

\* one read_registers call whose answer, if any, comes whole and in time
CounterRead ==
    /\ reads < MaxReads
    /\ \E fc \in SessFcs, count \in SessCounts :
         LET replies == SessReplies((transaction_id + 1) % 65536, fc, count)
             inputs == { [drain |-> 0, sendOk |-> FALSE, reply |-> <<>>, arrive |-> 0] }
                       \cup { [drain |-> 0, sendOk |-> TRUE, reply |-> rp,
                               arrive |-> Len(rp)] : rp \in replies }
         IN  \E call \in { <<read_registers(Client, 1, fc, 0, count, e), WireOf(Client, e)>> :
                              e \in inputs } :
               LET r == call[1]
               IN  /\ sock' = r.sock
                   /\ connected' = r.connected
                   /\ transaction_id' = r.tid
                   /\ stream' = r.stream
                   /\ last' = ReadRecord(r, fc, count, sock)
                   /\ rx' = call[2]
    /\ reads' = reads + 1
    /\ UNCHANGED <<planVars, pollVars, procVars, decVars, lateVars>>

CounterNext ==
    \/ SessConnect
    \/ CounterRead
    \/ SessClose

SpecCounter == CounterInit /\ [][CounterNext]_vars

----------------------------------------------------------------------------
\* SpecLate: the connected session called at the pace of the poll loop
\* (loggerpcv01.py lines 435-495), with a gateway that first answers late or
\* not at all and then comes to answer every request within the timeout.
\* The calls of one cycle follow each other within milliseconds (lines 325-339,
\* 312-319); between the last call of a cycle and the first of the next the
\* loop sleeps 0.5 s (line 495), which is the timeout of the socket (line 439):
\* what the gateway sent within the timeout of a request has arrived by then.

\* read_registers calls of one cycle
MaxCycleReads == 2

\* calls made before the gateway comes to answer in time
MaxLate == 1

\* calls followed: those before the gateway answers in time, the cycle that is
\* under way at that point, the first call of the next cycle, and one more
LateCap == MaxLate + MaxCycleReads + 2

\* the answers of the gateway to a request: the registers asked for
LateReplies(tid, fc, count) ==
    { ResponseFrame(tid, 1, fc, Repeat(w, count)) : w \in SessWords }

\* what can happen to one call.  Before the gateway answers in time: an answer
\* or none, any part of what is pending arrived when the buffer is cleared,
\* any part of the rest arrived when the call gives up.  Once it answers in
\* time: the answer follows what is pending and all of it arrives within the
\* timeout, so a call that waits for bytes gets them; the first call of a cycle
\* finds arrived all that was sent within the timeout of an earlier request.
LateInputs(st, replies) ==
    LET drains == IF lt_good /\ lt_due /\ lt_pos = 1 THEN { Len(st) } ELSE 0 .. Len(st)
        rps    == IF lt_good THEN replies ELSE replies \cup { <<>> }
    IN  UNION { UNION { { [drain |-> d, sendOk |-> TRUE, reply |-> rp, arrive |-> a] :
                             a \in 0 .. (Len(st) - d + Len(rp)) } :
                         rp \in rps } :
                 d \in drains }

\* the call ended for want of bytes that had not arrived
GaveUpWaiting(r, w) ==
    /\ r.outcome \in {"short_header", "short_pdu"}
    /\ w.arrived < Len(w.wire)

LateInit ==
    /\ sock = TRUE
    /\ connected = TRUE
    /\ transaction_id = 0
    /\ stream = <<>>
    /\ last = NoRead
    /\ reads = 0
    /\ rx = NoWire
    /\ PlanIdle
    /\ PollInit
    /\ ProcRunning
    /\ DecIdle
    /\ LateIdle

\* one read_registers call of the cycle
LateRead ==
    /\ lt_pos <= MaxCycleReads
    /\ reads < (IF lt_good THEN LateCap ELSE MaxLate)
    /\ \E fc \in SessFcs, count \in SessCounts :
         LET inputs == LateInputs(stream, LateReplies((transaction_id + 1) % 65536, fc, count))
             calls  == { <<read_registers(Client, 1, fc, 0, count, e), WireOf(Client, e)>> :
                            e \in inputs }
         IN  \E r \in { c[1] : c \in { c \in calls : lt_good => ~GaveUpWaiting(c[1], c[2]) } } :
               /\ sock' = r.sock
               /\ connected' = r.connected
               /\ transaction_id' = r.tid
               /\ stream' = r.stream
               /\ last' = ReadRecord(r, fc, count, sock)
               /\ lt_gotData' = (lt_gotData \/ (lt_good /\ r.ret.ok))
               /\ lt_stale' = (lt_stale \/ (lt_good /\ r.outcome = "tid_mismatch"))
    /\ reads' = reads + 1
    /\ lt_pos' = lt_pos + 1
    /\ lt_due' = lt_good
    /\ UNCHANGED <<lt_good, rx>>
    /\ UNCHANGED <<planVars, pollVars, procVars, decVars>>

\* the cycle ends and the loop sleeps (lines 488, 495)
LateEndCycle ==
    /\ lt_pos > 1
    /\ lt_pos' = 1
    /\ UNCHANGED <<lt_good, lt_due, lt_gotData, lt_stale>>
    /\ UNCHANGED <<sessVars, planVars, pollVars, procVars, decVars>>

\* from here on the gateway answers every request within the timeout
GatewayRecovers ==
    /\ ~lt_good
    /\ lt_good' = TRUE
    /\ UNCHANGED <<lt_pos, lt_due, lt_gotData, lt_stale>>
    /\ UNCHANGED <<sessVars, planVars, pollVars, procVars, decVars>>

LateNext ==
    \/ LateRead
    \/ LateEndCycle
    \/ GatewayRecovers

\* the pace of the loop: the steps of LateNext told by the position in the
\* cycle alone.  A call whose guard holds can always be made (its inputs are
\* never empty), so this is enabled exactly when LateNext is, and every step of
\* LateNext is one of these
LatePace ==
    \/ /\ lt_pos <= MaxCycleReads
       /\ reads < (IF lt_good THEN LateCap ELSE MaxLate)
       /\ reads' = reads + 1
       /\ lt_pos' = lt_pos + 1
       /\ UNCHANGED lt_good
    \/ /\ lt_pos > 1
       /\ lt_pos' = 1
       /\ UNCHANGED <<reads, lt_good>>
    \/ /\ ~lt_good
       /\ lt_good' = TRUE
       /\ UNCHANGED <<reads, lt_pos>>

\* the loop of modbus_logger never stops of itself (while True, line 435)
SpecLate == LateInit /\ [][LateNext]_vars /\ WF_<<reads, lt_pos, lt_good>>(LatePace)

----------------------------------------------------------------------------
\* SpecFrame: one call on a fresh connection, answered by a header that
\* announces a body of N bytes, then as much of the body as the gateway sends
\* and, after it, bytes of whatever comes next

MaxBody == 4
MaxTail == 2

\* n bytes of value b
Bytes(n, b) == [i \in 1 .. n |-> b]

\* a function code and, where there is room, a byte count and data
FrameBody(n, fc) == IF n = 1 THEN <<fc>> ELSE <<fc, n - 2>> \o Bytes(n - 2, 5)

\* what the gateway may send after a request tid: the header of that request
\* or of the one before it, sent bytes of a body of n, and a tail
FrameReplies(tid) ==
    { MbapHeader(t, n + 1, 1) \o Slice(FrameBody(n, fc), 0, sent) \o Bytes(tail, 9) :
        t \in {tid, tid - 1}, n \in 1 .. MaxBody, fc \in {3, 131},
        sent \in 0 .. MaxBody, tail \in 0 .. MaxTail }

\* one read_registers call on a connection with nothing pending
FrameRead ==
    /\ reads < 1
    /\ is_open(Client)
    /\ \E rp \in FrameReplies((transaction_id + 1) % 65536) :
         LET inputs == { [drain |-> 0, sendOk |-> TRUE, reply |-> rp, arrive |-> a] :
                           a \in 0 .. Len(rp) }
         IN  \E call \in { <<read_registers(Client, 1, 3, 0, 1, e), WireOf(Client, e)>> :
                              e \in inputs } :
               LET r == call[1]
               IN  /\ sock' = r.sock
                   /\ connected' = r.connected
                   /\ transaction_id' = r.tid
                   /\ stream' = r.stream
                   /\ last' = ReadRecord(r, 3, 1, sock)
                   /\ rx' = call[2]
    /\ reads' = reads + 1
    /\ UNCHANGED <<planVars, pollVars, procVars, decVars, lateVars>>

FrameNext ==
    \/ SessConnect
    \/ FrameRead

SpecFrame == SessInit /\ [][FrameNext]_vars

----------------------------------------------------------------------------
\* SpecPlanner: group_contiguous_registers and the filter of read_meter on
\* drawn parameter lists

\* the catalog the planner is run on: register address, size in words
PlanInfo ==
    [n \in {"Voltage", "Current", "Frequency", "Power Demand", "Import Active Energy"} |->
        CASE n = "Voltage" ->
                [id |-> 10, size |-> 2, type |-> "float", endian |-> 1234, mul |-> 1]
          [] n = "Current" ->
                [id |-> 13, size |-> 2, type |-> "float", endian |-> 1234, mul |-> 1]
          [] n = "Frequency" ->
                [id |-> 13, size |-> 1, type |-> "int", endian |-> 12, mul |-> 1]
          [] n = "Power Demand" ->
                [id |-> 12, size |-> 4, type |-> "float", endian |-> 1234, mul |-> 1]
          [] n = "Import Active Energy" ->
                [id |-> 20, size |-> 2, type |-> "float", endian |-> 1234, mul |-> 1]]

\* the names a parameter list may hold; "Ghost" has no spec
PlanNames == DOMAIN PlanInfo \cup {"Ghost"}

\* the lists of distinct names of length at most n
RECURSIVE ListsUpTo(_)
ListsUpTo(n) ==
    IF n = 0 THEN { <<>> }
    ELSE LET shorter == ListsUpTo(n - 1)
         IN  shorter \cup { Append(l, x) : l \in { m \in shorter : Len(m) = n - 1 },
                                            x \in PlanNames }

DistinctLists(n) ==
    { l \in ListsUpTo(n) : \A i, j \in 1 .. Len(l) : i # j => l[i] # l[j] }

PlanInit ==
    /\ ClientInit
    /\ PollInit
    /\ ProcRunning
    /\ DecIdle
    /\ LateIdle
    /\ pl_pc = "start"
    /\ pl_orig \in DistinctLists(MaxParams)
    /\ pl_paramlist = pl_orig
    /\ pl_gap \in 0 .. MaxGap
    /\ pl_base = <<>>
    /\ pl_groups = <<>>
    /\ pl_filter = "none"
    /\ pl_filtered = <<>>

\* loggerpcv01.py 424-427: the groups of a device are planned
PlanFirst ==
    /\ pl_pc = "start"
    /\ pl_pc' = "planned"
    /\ pl_groups' = group_contiguous_registers(pl_paramlist, PlanInfo, pl_gap)
    /\ pl_base' = pl_groups'
    /\ UNCHANGED <<pl_orig, pl_paramlist, pl_gap, pl_filter, pl_filtered>>
    /\ UNCHANGED <<sessVars, pollVars, procVars, decVars, lateVars>>

\* the same parameters given in another order, and planned again
PlanShuffled ==
    /\ pl_pc = "planned"
    /\ \E i \in 1 .. Len(pl_paramlist) - 1 :
         /\ pl_paramlist' = [pl_paramlist EXCEPT ![i] = pl_paramlist[i + 1],
                                                 ![i + 1] = pl_paramlist[i]]
         /\ pl_groups' = group_contiguous_registers(pl_paramlist', PlanInfo, pl_gap)
    /\ pl_filter' = "none"
    /\ pl_filtered' = <<>>
    /\ UNCHANGED <<pl_pc, pl_orig, pl_gap, pl_base>>
    /\ UNCHANGED <<sessVars, pollVars, procVars, decVars, lateVars>>

\* read_meter 301-317: the group list of one cycle
PlanFilter ==
    /\ pl_pc = "planned"
    /\ \E read_minute_params \in BOOLEAN :
         /\ pl_filter' = IF read_minute_params THEN "full" ELSE "instant"
         /\ pl_filtered' = FilterGroups(pl_groups,
                                        active_params(pl_paramlist, read_minute_params))
    /\ UNCHANGED <<pl_pc, pl_orig, pl_paramlist, pl_gap, pl_base, pl_groups>>
    /\ UNCHANGED <<sessVars, pollVars, procVars, decVars, lateVars>>

PlanNext ==
    \/ PlanFirst
    \/ PlanShuffled
    \/ PlanFilter

SpecPlanner == PlanInit /\ [][PlanNext]_vars

----------------------------------------------------------------------------
\* Device Reader and Validator (loggerpcv01.py)

\* lines 192-222: the value of one member out of the data of its group
DecodeMember(data, param) ==
    LET offset_bytes == OffsetBytes(param)
        size_bytes   == SizeBytes(param)
        param_data   == Slice(data, offset_bytes, offset_bytes + size_bytes)
    IN  IF Len(param_data) < size_bytes THEN NoValue
        ELSE LET value == parse_register_data(param_data, param.type, param.endian)
             IN  IF IsSentinel(value) THEN NoValue
                 ELSE Scaled(value, param.mul)

\* the loop over the members left at the first one that gave None
NextMember_StopAtNone(i, value, n) == IF value = NoValue THEN n + 1 ELSE i + 1

\* lines 192, 201, 213: `continue`, and the end of the loop body: the loop
\* goes on with the next member whatever this one gave
NextMember(i, value, n) == i + 1

\* lines 191-224: the loop over the members of the group, from member i on,
\* with the results so far
RECURSIVE ParseMembers(_, _, _, _)
ParseMembers(data, params, i, results) ==
    IF i > Len(params) THEN results
    ELSE LET value == DecodeMember(data, params[i])
             name  == params[i].name
         IN  ParseMembers(data, params, NextMember(i, value, Len(params)),
                          [n \in DOMAIN results \cup {name} |->
                              IF n = name THEN value ELSE results[n]])

\* lines 185-189: None for every member
AllNone(params) == [n \in { params[k].name : k \in 1 .. Len(params) } |-> NoValue]

\* lines 159-230: the client after the call and the value (or None) of each member
read_register_group(s, meter_id, function_code, group, e) ==
    LET r == read_registers(s, meter_id, function_code, group.start_addr, group.count, e)
    IN  [client  |-> r,
         results |-> IF ~r.ret.ok THEN AllNone(group.params)
                     ELSE ParseMembers(r.ret.data, group.params, 1, EmptyMap)]

\* line 335: at least one value of the group is not None
AnyDecoded(group_values) ==
    /\ DOMAIN group_values # {}
    /\ \E n \in DOMAIN group_values : group_values[n] # NoValue

\* the retry loop running range(3)
TryAgain_Thrice(att, group_values) == att < 2 /\ ~AnyDecoded(group_values)

\* lines 325-339: the group is read again after this attempt
TryAgain(att, group_values) == att < 1 /\ ~AnyDecoded(group_values)

\* lines 342-345: the values that are not None go into readings
MergeReadings(rd, group_values) ==
    LET got == { n \in DOMAIN group_values : group_values[n] # NoValue }
    IN  [n \in DOMAIN rd \cup got |-> IF n \in got THEN group_values[n] ELSE rd[n]]

\* lines 52-60, in thousandths
VALIDATION_RANGES ==
    [n \in {"Voltage", "Current", "Frequency", "Power Factor", "Active Power",
            "Apparent Power", "Reactive Power"} |->
        CASE n = "Voltage" -> <<100000, 300000>>
          [] n = "Current" -> <<0, 100000>>
          [] n = "Frequency" -> <<45000, 55000>>
          [] n = "Power Factor" -> <<-1500, 1500>>
          [] n = "Active Power" -> <<-20000000, 20000000>>
          [] n = "Apparent Power" -> <<0, 20000000>>
          [] n = "Reactive Power" -> <<-20000000, 20000000>>]

\* value < bound, as Python compares floats: false for a NaN
Less(value, bound) ==
    CASE value.k = "num" -> value.m < bound
      [] value.k \in {"big", "inf"} -> value.m < 0
      [] OTHER -> FALSE

\* value > bound, as Python compares floats: false for a NaN
Greater(value, bound) ==
    CASE value.k = "num" -> value.m > bound
      [] value.k \in {"big", "inf"} -> value.m > 0
      [] OTHER -> FALSE

\* the lower bound not checked
OutOfRange_UpperOnly(value, min_val, max_val) ==
    value # NoValue /\ Greater(value, max_val)

\* line 148
OutOfRange(value, min_val, max_val) ==
    value # NoValue /\ (Less(value, min_val) \/ Greater(value, max_val))

\* lines 139-150: is_valid
validate_readings(rd) ==
    \A param \in DOMAIN VALIDATION_RANGES :
        param \in DOMAIN rd =>
            ~OutOfRange(rd[param], VALIDATION_RANGES[param][1], VALIDATION_RANGES[param][2])

\* the dict rd cut down to the keys in keep
Restrict(rd, keep) == [n \in DOMAIN rd \cap keep |-> rd[n]]

\* every reading handed over as an instant reading
instant_readings_All(rd) == rd

\* lines 466-467
instant_readings(rd) == Restrict(rd, DOMAIN rd \ MINUTE_INTERVAL_PARAMS)

\* lines 468-469
minute_readings(rd) == Restrict(rd, MINUTE_INTERVAL_PARAMS)

\* the time taken as its own minute, without flooring
FloorMinute_None(t) == t

\* line 449
FloorMinute(t) == t - (t % 60)

\* the marker never advanced
NextMarker_Stuck(read_minute, minute, marker) == marker

\* lines 491-492
NextMarker(read_minute, minute, marker) == IF read_minute THEN minute ELSE marker

----------------------------------------------------------------------------
\* The configuration of Spec: two meters behind one gateway

\* the parameter catalog of the meter model (meterparamjson[model])
MeterParams ==
    [n \in {"Voltage", "Current", "Power Demand", "Import Active Energy"} |->
        CASE n = "Voltage" ->
                [id |-> 100, size |-> 2, type |-> "float", endian |-> 1234, mul |-> 1]
          [] n = "Current" ->
                [id |-> 102, size |-> 2, type |-> "float", endian |-> 1234, mul |-> 1]
          [] n = "Power Demand" ->
                [id |-> 104, size |-> 2, type |-> "float", endian |-> 1234, mul |-> 1]
          [] n = "Import Active Energy" ->
                [id |-> 110, size |-> 2, type |-> "float", endian |-> 1234, mul |-> 1]]

\* line 64: max_gap: int = 2
DefaultMaxGap == 2

arrayMeterName == <<"M1", "M2">>

\* setting["meterlist"]: unit id and selected parameters of each meter
MeterList ==
    [m \in {"M1", "M2"} |->
        IF m = "M1"
        THEN [id |-> 1, paramlist |-> <<"Import Active Energy", "Voltage", "Power Demand">>]
        ELSE [id |-> 2, paramlist |-> <<"Voltage", "Current">>]]

\* lines 398-427: logged[mname]
logged ==
    [m \in {"M1", "M2"} |->
        LET paraminfo == [n \in SeqToSet(MeterList[m].paramlist) |-> MeterParams[n]]
        IN  [id |-> MeterList[m].id,
             functionCode |-> 3,
             paramlist |-> MeterList[m].paramlist,
             paraminfo |-> paraminfo,
             register_groups |->
                 group_contiguous_registers(MeterList[m].paramlist, paraminfo,
                                            DefaultMaxGap)]]

\* lines 301-317: the groups read_meter reads for a meter in this cycle
MeterGroups(meter, read_minute_params) ==
    FilterGroups(logged[meter].register_groups,
                 active_params(logged[meter].paramlist, read_minute_params))

\* register contents of a meter: the four bytes of each float
Float230 == <<67, 102, 0, 0>>
Float350 == <<67, 175, 0, 0>>
FloatNaN == <<127, 192, 0, 0>>
FloatMinus999 == <<196, 121, 192, 0>>
\* what the voltage registers of a meter may hold
VoltageImages(unit_id) ==
    IF unit_id = 1 THEN {Float230, Float350, FloatNaN, FloatMinus999}
    ELSE {Float230}

\* the two bytes of the register at address a when the voltage registers hold v
RegisterBytes(a, v) ==
    LET four == IF a \in {100, 101} THEN v
                ELSE IF a \in {102, 103} THEN <<65, 32, 0, 0>>
                ELSE IF a \in {104, 105} THEN <<63, 192, 0, 0>>
                ELSE IF a \in {110, 111} THEN <<65, 64, 0, 0>>
                ELSE <<0, 0, 0, 0>>
    IN  IF a % 2 = 0 THEN SubSeq(four, 1, 2) ELSE SubSeq(four, 3, 4)

RECURSIVE RegisterRange(_, _, _)
RegisterRange(start, count, v) ==
    IF count = 0 THEN <<>>
    ELSE RegisterBytes(start, v) \o RegisterRange(start + 1, count - 1, v)

\* what the gateway may answer to a request in Spec: nothing, the registers
\* asked for, only the first two of them, or an exception
PollReplies(tid, unit_id, fc, start, count) ==
    { <<>> }
    \cup { ResponseFrame(tid, unit_id, fc, RegisterRange(start, count, v)) :
             v \in VoltageImages(unit_id) }
    \cup { ResponseFrame(tid, unit_id, fc, RegisterRange(start + 2, 1, Float230)) }
    \cup { ExceptionFrame(tid, unit_id, fc, 2) }

\* the inputs of one read in Spec: the send fails, or the answer (if any)
\* arrives whole before the deadline; no answer is late
PollInputs(replies) ==
    { [drain |-> 0, sendOk |-> FALSE, reply |-> <<>>, arrive |-> 0] }
    \cup { [drain |-> 0, sendOk |-> TRUE, reply |-> rp, arrive |-> Len(rp)] : rp \in replies }

\* the seconds that may pass from the clock reading of one cycle to that of
\* the next, over the reads and the sleeps of lines 488 and 495
TimeSteps == {1, 60}

----------------------------------------------------------------------------
\* Spec: the poll loop of modbus_logger (lines 435-502) and the health check

Meter == arrayMeterName[mi]

\* the cycle goes on without a connection
SkipsCycle_Never(c) == FALSE

\* lines 440-443: `if not client.connect(): ... continue`
SkipsCycle(c) == ~is_open(c)

\* lines 435-450: the head of a cycle
CycleStart ==
    /\ pc = "cycle"
    /\ cycles < MaxCycles
    /\ cycles' = cycles + 1
    /\ \E ok \in BOOLEAN :
         LET c == IF is_open(Client) THEN Client ELSE connect(ok)
         IN  /\ sock' = c.sock
             /\ connected' = c.connected
             /\ transaction_id' = c.tid
             /\ stream' = c.stream
             /\ IF SkipsCycle(c)
                THEN \* connect failed: sleep 5 s and start over
                     UNCHANGED <<pc, unix_time, current_minute, read_minute_data>>
                ELSE /\ unix_time' = now
                     /\ current_minute' = FloorMinute(unix_time')
                     /\ read_minute_data' = (current_minute' > last_minute_storage)
                     /\ pc' = "meter"
    /\ mi' = 1
    /\ gi' = 1
    /\ attempt' = 0
    /\ readings' = EmptyMap
    /\ UNCHANGED <<now, last_minute_storage, deliveries, minuteSent, cycleLog, glog>>
    /\ UNCHANGED <<last, reads, rx>>
    /\ UNCHANGED <<planVars, procVars, decVars, lateVars>>

\* a closed client is reconnected before the group is read
GroupClient_Reconnect(c) == IF is_open(c) THEN c ELSE connect(TRUE)

\* lines 290, 326-327: read_meter hands the global client on as it is
GroupClient(c) == c

\* read_meter 323-352: one attempt to read the current group
ReadGroup ==
    /\ pc = "meter"
    /\ gi <= Len(MeterGroups(Meter, read_minute_data))
    /\ LET group == MeterGroups(Meter, read_minute_data)[gi]
           fc == logged[Meter].functionCode
           inputs == PollInputs(PollReplies((transaction_id + 1) % 65536, logged[Meter].id,
                                            fc, group.start_addr, group.count))
       IN  \E g \in { read_register_group(GroupClient(Client), logged[Meter].id, fc, group, e) :
                        e \in inputs } :
             LET entry == [decoded |-> AnyDecoded(g.results),
                           outcome |-> g.client.outcome,
                           data |-> g.client.ret.data]
             IN  /\ sock' = g.client.sock
                 /\ connected' = g.client.connected
                 /\ transaction_id' = g.client.tid
                 /\ stream' = g.client.stream
                 /\ glog' = IF gi \in DOMAIN glog
                            THEN [glog EXCEPT ![gi] = Append(@, entry)]
                            ELSE (gi :> <<entry>>) @@ glog
                 /\ IF TryAgain(attempt, g.results)
                    THEN /\ attempt' = attempt + 1
                         /\ UNCHANGED <<gi, readings>>
                    ELSE /\ attempt' = 0
                         /\ gi' = gi + 1
                         /\ readings' = MergeReadings(readings, g.results)
    /\ UNCHANGED <<pc, now, unix_time, current_minute, read_minute_data,
                   last_minute_storage, mi, cycles, deliveries, minuteSent, cycleLog>>
    /\ UNCHANGED <<last, reads, rx>>
    /\ UNCHANGED <<planVars, procVars, decVars, lateVars>>

\* one send_meter_reading call (api_client.py 14-37) and its result, which
\* the caller only prints
Delivery(meter, ts, fields, kind, success) ==
    [meter |-> meter, ts |-> ts, fields |-> fields, kind |-> kind, ok |-> success]

\* the minute delivery skipped after a failed instant delivery
SendsMinute_IfInstantOk(minu, read_minute, instant_ok) ==
    minu # EmptyMap /\ read_minute /\ instant_ok

\* line 478: `if minute_readings and read_minute_data`, whatever the instant
\* delivery returned
SendsMinute(minu, read_minute, instant_ok) == minu # EmptyMap /\ read_minute

\* the loop left at the first rejected Reading
AfterMeter_Abort(i) == Len(arrayMeterName) + 1

\* line 463 `continue`: the loop goes on with the next meter
AfterMeter(i) == i + 1

\* read_meter 354-366 and modbus_logger 458-488: the Reading of the meter is
\* validated, split and handed over
FinishMeter ==
    /\ pc = "meter"
    /\ gi > Len(MeterGroups(Meter, read_minute_data))
    /\ \E okInstant, okMinute \in BOOLEAN :
       LET is_valid == validate_readings(readings)
           inst == instant_readings(readings)
           minu == minute_readings(readings)
           sendInstant == readings # EmptyMap /\ is_valid /\ inst # EmptyMap
           sendMinute == /\ readings # EmptyMap /\ is_valid
                         /\ SendsMinute(minu, read_minute_data,
                                        ~sendInstant \/ okInstant)
           verdict == IF readings = EmptyMap THEN "empty"
                      ELSE IF is_valid THEN "accepted" ELSE "rejected"
           mkey == <<Meter, current_minute>>
           next == IF verdict = "rejected" THEN AfterMeter(mi) ELSE mi + 1
       IN  /\ (~sendInstant => okInstant)
           /\ (~sendMinute => okMinute)
           /\ deliveries' =
                  deliveries
                  \o (IF sendInstant
                      THEN <<Delivery(Meter, unix_time, inst, "instant", okInstant)>>
                      ELSE <<>>)
                  \o (IF sendMinute
                      THEN <<Delivery(Meter, current_minute, minu, "minute", okMinute)>>
                      ELSE <<>>)
           /\ minuteSent' =
                  IF ~sendMinute THEN minuteSent
                  ELSE IF mkey \in DOMAIN minuteSent
                  THEN [minuteSent EXCEPT ![mkey] = @ + 1]
                  ELSE (mkey :> 1) @@ minuteSent
           /\ cycleLog' = (Meter :> [reading |-> readings,
                                     verdict |-> verdict,
                                     reached |-> glog[1][1].outcome # "no_sock",
                                     lost |-> ~is_open(Client)])
                          @@ cycleLog
           /\ mi' = Min(next, Len(arrayMeterName))
           /\ pc' = IF next > Len(arrayMeterName) THEN "end" ELSE "meter"
    /\ gi' = 1
    /\ attempt' = 0
    /\ readings' = EmptyMap
    /\ glog' = EmptyMap
    /\ UNCHANGED <<now, unix_time, current_minute, read_minute_data, last_minute_storage,
                   cycles>>
    /\ UNCHANGED sessVars
    /\ UNCHANGED <<planVars, procVars, decVars, lateVars>>

\* lines 490-495: the marker is advanced and the cycle ends
EndCycle ==
    /\ pc = "end"
    /\ last_minute_storage' = NextMarker(read_minute_data, current_minute,
                                         last_minute_storage)
    /\ pc' = "cycle"
    /\ \E d \in TimeSteps : now' = now + d
    /\ deliveries' = <<>>
    /\ cycleLog' = EmptyMap
    /\ UNCHANGED <<unix_time, current_minute, read_minute_data, mi, gi, attempt,
                   readings, cycles, minuteSent, glog>>
    /\ UNCHANGED sessVars
    /\ UNCHANGED <<planVars, procVars, decVars, lateVars>>

\* the health check closes the connection when the endpoint is not healthy
HealthClient_CloseOnFail(s, healthy) ==
    IF healthy THEN s ELSE [s EXCEPT !.sock = FALSE, !.connected = FALSE]

\* lines 505-516: what a health check leaves of the client: it uses
\* api_client only
HealthClient(s, healthy) == s

\* lines 505-516 and api_client.py 39-48: the health-check task probes the
\* ingestion endpoint and prints the result; it keeps nothing
HealthCheck ==
    /\ hpc = "check"
    /\ \E healthy \in BOOLEAN :
         LET c == HealthClient(Client, healthy)
         IN  /\ sock' = c.sock
             /\ connected' = c.connected
             /\ transaction_id' = c.tid
             /\ stream' = c.stream
    /\ hpc' = "sleep"
    /\ UNCHANGED <<ppc, status_error, streak, dropped, exit_how>>
    /\ UNCHANGED <<last, reads, rx>>
    /\ UNCHANGED <<planVars, pollVars, decVars, lateVars>>

\* lines 513 and 516: asyncio.sleep(300), or 60 after an error, is over and
\* the worker is back at the head of its loop
HealthSleep ==
    /\ hpc = "sleep"
    /\ hpc' = "check"
    /\ UNCHANGED <<ppc, status_error, streak, dropped, exit_how>>
    /\ UNCHANGED <<sessVars, planVars, pollVars, decVars, lateVars>>

Init ==
    /\ ClientInit
    /\ PlanIdle
    /\ PollInit
    /\ ProcRunning
    /\ DecIdle
    /\ LateIdle

Next ==
    \/ CycleStart
    \/ ReadGroup
    \/ FinishMeter
    \/ EndCycle
    \/ HealthCheck
    \/ HealthSleep

Spec == Init /\ [][Next]_vars

----------------------------------------------------------------------------
\* SpecDecode: parse_register_data on drawn spans, and the member loop of
\* read_register_group on drawn replies of one group

\* the bytes the spans are cut from
SpanBases == { <<0, 0, 67, 101, 17, 34, 51, 68>>,
               <<196, 121, 192, 0, 255, 255, 252, 25>> }
\* the widths of the spans
SpanWidths == {0, 1, 2, 3, 4, 6, 8}
DecTypes == {"float", "int", "sint"}
\* the `endian` values given
DecEndians == {5, 12, 21, 34, 1234, 2143, 3412, 4321, 1239, 12345678, 56781234}

\* the catalog entries of the three members of the group
DecParams ==
    [n \in {"Voltage", "Power Factor", "Serial Number"} |->
        CASE n = "Voltage" ->
                [id |-> 100, size |-> 2, type |-> "float", endian |-> 1234, mul |-> 1]
          [] n = "Power Factor" ->
                [id |-> 102, size |-> 1, type |-> "sint", endian |-> 21, mul |-> 1]
          [] n = "Serial Number" ->
                [id |-> 103, size |-> 2, type |-> "int", endian |-> 3412, mul |-> 1]]

\* lines 424-427: the one group planned for them
DecGroup ==
    group_contiguous_registers(<<"Voltage", "Power Factor", "Serial Number">>,
                               DecParams, DefaultMaxGap)[1]

\* what the registers of each member may hold
DecVoltageImages == {Float230, FloatMinus999, FloatNaN}
DecFactorImages == { <<231, 3>>, <<25, 252>> }
DecSerialImages == { <<0, 7, 0, 0>>, <<0, 1, 0, 0>> }
\* the lengths of the data returned for the group
DecCuts == {0, 3, 4, 5, 6, 9, 10}

\* the data of the replies to the read of the group
DecGroupDatas ==
    { Slice(v \o f \o n, 0, cut) :
        v \in DecVoltageImages, f \in DecFactorImages, n \in DecSerialImages,
        cut \in DecCuts }

DecInit ==
    /\ ClientInit
    /\ PlanIdle
    /\ PollInit
    /\ ProcRunning
    /\ DecIdle
    /\ LateIdle

\* one call of parse_register_data
DecodeSpan ==
    /\ dc_pc = "idle"
    /\ \E base \in SpanBases, w \in SpanWidths, t \in DecTypes, en \in DecEndians :
         LET data == Slice(base, 0, w)
         IN  /\ dc_data' = data
             /\ dc_type' = t
             /\ dc_endian' = en
             /\ dc_reordered' = IF data = <<>> THEN <<>> ELSE Reorder(data, en)
             /\ dc_value' = parse_register_data(data, t, en)
    /\ dc_pc' = "span"
    /\ UNCHANGED <<dc_group, dc_results>>
    /\ UNCHANGED <<sessVars, planVars, pollVars, procVars, lateVars>>

\* read_register_group 191-224 on the data of one reply
DecodeGroup ==
    /\ dc_pc = "idle"
    /\ \E data \in DecGroupDatas :
         /\ dc_data' = data
         /\ dc_results' = ParseMembers(data, DecGroup.params, 1, EmptyMap)
    /\ dc_group' = DecGroup
    /\ dc_pc' = "group"
    /\ UNCHANGED <<dc_type, dc_endian, dc_reordered, dc_value>>
    /\ UNCHANGED <<sessVars, planVars, pollVars, procVars, lateVars>>

DecNext ==
    \/ DecodeSpan
    \/ DecodeGroup

SpecDecode == DecInit /\ [][DecNext]_vars

----------------------------------------------------------------------------
\* SpecProcess: the process from import to exit (loggerpcv01.py 18-27 and
\* 539-562). A cycle of the poll loop is one step here; its steps are those
\* of Spec.

\* line 551: status.get('error', 0) > 10
ERROR_LIMIT == 10

\* the process gives up one failure early
TooManyErrors_AtLimit(n) == n >= ERROR_LIMIT

\* line 551
TooManyErrors(n) == n > ERROR_LIMIT

\* modbus.py 30-40: the sockets that connect() lets go without close(): the
\* except clause sets self.sock = None on the socket whose connect() raised
DroppedByConnect(how) == IF how = "refused" THEN 1 ELSE 0

\* lines 553-562, `if client and client.is_open: client.close()`
CloseIfOpen(s) == IF is_open(s) THEN close(s) ELSE [sock |-> s.sock, connected |-> s.connected]

ProcInit ==
    /\ ClientInit
    /\ PlanIdle
    /\ PollInit
    /\ ppc = "import"
    /\ status_error = 0
    /\ streak = 0
    /\ dropped = 0
    /\ exit_how = "none"
    /\ hpc = "check"
    /\ DecIdle
    /\ LateIdle

\* lines 18-27: setting.json is loaded when the module is imported; a missing
\* or malformed file raises out of the module
LoadSettings ==
    /\ ppc = "import"
    /\ \E loaded \in BOOLEAN :
         /\ ppc' = IF loaded THEN "main" ELSE "exited"
         /\ exit_how' = IF loaded THEN "none" ELSE "traceback"
    /\ UNCHANGED <<status_error, streak, dropped, hpc>>
    /\ UNCHANGED <<sessVars, planVars, pollVars, decVars, lateVars>>

\* lines 546-562 with 381-430: asyncio.run(main()) starts modbus_logger, which
\* loads the parameter catalog and builds `logged`; an exception there leaves
\* main(), is counted, and the loop restarts main() or exits
RunMain ==
    /\ ppc = "main"
    /\ \E loaded \in BOOLEAN :
         IF loaded
         THEN /\ ppc' = "cycle"
              /\ UNCHANGED <<status_error, streak, exit_how, sock, connected>>
         ELSE LET c == CloseIfOpen(Client)
              IN  /\ status_error' = status_error + 1
                  /\ streak' = streak + 1
                  /\ sock' = c.sock
                  /\ connected' = c.connected
                  /\ IF TooManyErrors(status_error')
                     THEN /\ ppc' = "exited"
                          /\ exit_how' = "exit1"
                     ELSE /\ ppc' = "restart"
                          /\ UNCHANGED exit_how
    /\ UNCHANGED <<dropped, hpc>>
    /\ UNCHANGED <<transaction_id, stream, last, reads, rx>>
    /\ UNCHANGED <<planVars, pollVars, decVars, lateVars>>

\* lines 557-559: time.sleep(5); continue
Restart ==
    /\ ppc = "restart"
    /\ ppc' = "main"
    /\ UNCHANGED <<status_error, streak, dropped, exit_how, hpc>>
    /\ UNCHANGED <<sessVars, planVars, pollVars, decVars, lateVars>>

\* lines 437-443 and modbus.py 28-41: the head of a cycle without a connection.
\* how: the connection is made, connect() of the new socket raises, or no
\* socket can be made
ProcConnect ==
    /\ ppc = "cycle"
    /\ ~is_open(Client)
    /\ \E how \in {"ok", "refused", "no_socket"} :
         LET c == connect(how = "ok")
         IN  /\ sock' = c.sock
             /\ connected' = c.connected
             /\ transaction_id' = c.tid
             /\ stream' = c.stream
             /\ dropped' = Min(dropped + DroppedByConnect(how), MaxDropped)
             /\ ppc' = IF is_open(c) THEN "cycle" ELSE "backoff"
    /\ UNCHANGED <<status_error, streak, exit_how, hpc>>
    /\ UNCHANGED <<last, reads, rx>>
    /\ UNCHANGED <<planVars, pollVars, decVars, lateVars>>

\* line 442: sleep 5 s, then the while loop starts over
Backoff ==
    /\ ppc = "backoff"
    /\ ppc' = "cycle"
    /\ UNCHANGED <<status_error, streak, dropped, exit_how, hpc>>
    /\ UNCHANGED <<sessVars, planVars, pollVars, decVars, lateVars>>

\* lines 445-502: a cycle on an open connection. It is completed with the
\* connection kept, or a send fails and read_registers closes the connection
\* (modbus.py 173-181), or an exception reaches the except clause of the loop,
\* which closes the connection and sleeps
ProcCycle ==
    /\ ppc = "cycle"
    /\ is_open(Client)
    /\ \E result \in {"completed", "send_failed", "exception"} :
         LET c == IF result = "completed"
                  THEN [sock |-> sock, connected |-> connected]
                  ELSE CloseIfOpen(Client)
         IN  /\ sock' = c.sock
             /\ connected' = c.connected
             /\ streak' = IF result = "completed" THEN 0 ELSE streak
             /\ ppc' = IF result = "exception" THEN "backoff" ELSE "cycle"
    /\ UNCHANGED <<status_error, dropped, exit_how, hpc>>
    /\ UNCHANGED <<transaction_id, stream, last, reads, rx>>
    /\ UNCHANGED <<planVars, pollVars, decVars, lateVars>>

\* lines 544-546 and 560-562: KeyboardInterrupt leaves the loop; the finally
\* clause closes the connection
Interrupt ==
    /\ ppc \in {"main", "restart", "cycle", "backoff"}
    /\ LET c == CloseIfOpen(Client)
       IN  /\ sock' = c.sock
           /\ connected' = c.connected
    /\ ppc' = "exited"
    /\ exit_how' = "interrupt"
    /\ UNCHANGED <<status_error, streak, dropped, hpc>>
    /\ UNCHANGED <<transaction_id, stream, last, reads, rx>>
    /\ UNCHANGED <<planVars, pollVars, decVars, lateVars>>

ProcNext ==
    \/ LoadSettings
    \/ RunMain
    \/ Restart
    \/ ProcConnect
    \/ Backoff
    \/ ProcCycle
    \/ Interrupt

\* the process runs on one thread that is never starved: a step that can be
\* taken is taken
SpecProcess == ProcInit /\ [][ProcNext]_vars /\ WF_vars(ProcNext)

----------------------------------------------------------------------------
\* Properties of the Transport Session (SpecSession)

\* how a read_registers call ended: with a timeout (no header, or part of one,
\* or part of the PDU, within the deadline) or with a frame error
TimeoutOutcomes == {"short_header", "short_pdu"}
FrameErrorOutcomes == {"short_header", "bad_length", "tid_mismatch", "fc_mismatch",
                       "short_pdu"}

\* C1: after a read_registers call that ended in a timeout or a frame
\* error, the session is Disconnected (socket closed, is_open false).
C1_ClosedAfterTimeoutOrFrameError ==
    last.outcome \in TimeoutOutcomes \cup FrameErrorOutcomes => ~last.openAfter

\* C3: read_registers returns data only when the transaction id echoed in
\* the header it read is the id of the request just sent and the function
\* code of the PDU is the requested one; otherwise it returns no data.
C3_DataOnlyFromMatchingReply ==
    last.ret.ok => /\ last.sent
                   /\ last.rxTid = last.tid
                   /\ last.rxFc = last.function_code

\* data returned by the second request of a connection
C3_Witness ==
    /\ last.ret.ok
    /\ Len(last.ret.data) = 2 * last.count
    /\ last.tid = 2
    /\ last.rxTid = 2

----------------------------------------------------------------------------
\* Properties of the Register Planner (SpecPlanner)

\* a group list compared by start address, register count and member set
Canon(groups) ==
    [i \in 1 .. Len(groups) |->
        [start |-> groups[i].start_addr, count |-> groups[i].count,
         members |-> { groups[i].params[k].name : k \in 1 .. Len(groups[i].params) }]]

\* the largest addr+size among the first k members
RECURSIVE EndOfFirst(_, _)
EndOfFirst(ps, k) ==
    IF k = 0 THEN 0
    ELSE IF k = 1 THEN ps[1].address + ps[1].size
    ELSE Max(EndOfFirst(ps, k - 1), ps[k].address + ps[k].size)

\* the members of all groups, in group order
RECURSIVE AllMembers(_)
AllMembers(groups) ==
    IF groups = <<>> THEN <<>> ELSE Head(groups).params \o AllMembers(Tail(groups))

\* C8: for a fixed gap, the groups planned from any reordering of the
\* parameter list equal the groups planned from the list as first given,
\* compared by start address, register count and member set.
C8_OrderIndependent ==
    pl_pc = "planned" => Canon(pl_groups) = Canon(pl_base)

C8_Witness ==
    /\ pl_pc = "planned"
    /\ pl_paramlist # pl_orig
    /\ Len(pl_groups) >= 2
    /\ \E i \in 1 .. Len(pl_groups) : Len(pl_groups[i].params) >= 2

\* C9: walking the parameters in address order, a parameter is in the group
\* of its predecessor exactly when its address is at most the end of that
\* group so far plus the gap; the end of a group is the largest addr+size of
\* its members; and the parameters at 10 (size 2) and at 13 form one group
\* for gap >= 1 and two groups for gap = 0.
C9_WalkRule ==
    pl_pc = "planned" =>
        LET gs == pl_groups
            ms == AllMembers(gs)
        IN  /\ \A k \in 1 .. Len(ms) - 1 : ms[k].address <= ms[k + 1].address
            /\ \A i \in 1 .. Len(gs) :
                 /\ gs[i].start_addr = gs[i].params[1].address
                 /\ gs[i].end_addr = EndOfFirst(gs[i].params, Len(gs[i].params))
                 /\ \A k \in 2 .. Len(gs[i].params) :
                      gs[i].params[k].address <= EndOfFirst(gs[i].params, k - 1) + pl_gap
            /\ \A i \in 1 .. Len(gs) - 1 :
                 gs[i + 1].params[1].address > gs[i].end_addr + pl_gap
            /\ SeqToSet(pl_paramlist) = {"Voltage", "Current"} =>
                 Len(gs) = IF pl_gap >= 1 THEN 1 ELSE 2

C9_Witness ==
    /\ pl_pc = "planned"
    /\ SeqToSet(pl_paramlist) = {"Voltage", "Current"}
    /\ pl_gap = 1
    /\ Len(pl_groups) = 1
    /\ pl_groups[1].end_addr = 15

\* the well-formedness of a group list gs derived from the planned groups
\* full, for the parameter names wanted
GroupsWellFormed(gs, full, wanted) ==
    /\ \A i, j \in 1 .. Len(gs) : i < j => gs[i].start_addr < gs[j].start_addr
    /\ \A i \in 1 .. Len(gs) :
         /\ \E f \in 1 .. Len(full) :
              /\ full[f].start_addr = gs[i].start_addr
              /\ gs[i].count = EndOfFirst(full[f].params, Len(full[f].params))
                                 - gs[i].start_addr
         /\ \A k \in 1 .. Len(gs[i].params) :
              LET m == gs[i].params[k]
              IN  /\ gs[i].start_addr <= m.address
                  /\ m.address + m.size <= gs[i].start_addr + gs[i].count
                  /\ OffsetBytes(m) = (m.address - gs[i].start_addr) * 2
                  /\ m.name \in wanted
    /\ \A n \in wanted :
         Cardinality({ ik \in { <<i, k>> : i \in 1 .. Len(gs), k \in 1 .. MaxParams + 1 } :
                         /\ ik[2] <= Len(gs[ik[1]].params)
                         /\ gs[ik[1]].params[ik[2]].name = n }) = 1

\* C10: in the planner's output and in every filtered list read_meter
\* derives from it, groups are sorted by start address, count is end minus
\* start, every member lies within [start, start+count), a member's byte
\* offset is (address - start) * 2, and every (active) input parameter that
\* has a spec is a member of exactly one group.
C10_GroupsWellFormed ==
    pl_pc = "planned" =>
        /\ GroupsWellFormed(pl_groups, pl_groups,
                            SeqToSet(pl_paramlist) \cap DOMAIN PlanInfo)
        /\ pl_filter # "none" =>
             GroupsWellFormed(pl_filtered, pl_groups,
                              { n \in SeqToSet(pl_paramlist) \cap DOMAIN PlanInfo :
                                    IsActive(n, pl_filter = "full") })

C10_Witness ==
    /\ pl_pc = "planned"
    /\ pl_filter = "instant"
    /\ Len(pl_filtered) >= 1
    /\ Len(pl_filtered) < Len(pl_groups)
    /\ \E i \in 1 .. Len(pl_filtered) :
         /\ pl_filtered[i].params[1].offset > 0
         /\ Len(pl_filtered[i].params) = 1

----------------------------------------------------------------------------
\* Properties of the poll loop (Spec)

MeterNames == SeqToSet(arrayMeterName)

\* the deliveries made for meter m so far in the current cycle, in order
DeliveriesOf(m) ==
    LET RECURSIVE Pick(_)
        Pick(i) == IF i > Len(deliveries) THEN <<>>
                   ELSE (IF deliveries[i].meter = m
                         THEN <<[ts |-> deliveries[i].ts, fields |-> deliveries[i].fields]>>
                         ELSE <<>>) \o Pick(i + 1)
    IN  Pick(1)

\* the part of the Reading rd whose field names are in keep
Part(rd, keep) == [n \in DOMAIN rd \cap keep |-> rd[n]]

HasMinuteParams(m) == SeqToSet(logged[m].paramlist) \cap MINUTE_INTERVAL_PARAMS # {}

\* how often the minute fields of meter m were delivered with timestamp minute
MinuteCount(m, minute) ==
    IF <<m, minute>> \in DOMAIN minuteSent THEN minuteSent[<<m, minute>>] ELSE 0

\* a delivery of minute fields carries the minute fields of the Reading of its
\* own cycle, stamped with the minute boundary of that cycle
MinuteDeliveriesAreOfTheirCycle ==
    \A i \in 1 .. Len(deliveries) :
        deliveries[i].kind = "minute" =>
            /\ read_minute_data
            /\ deliveries[i].ts = current_minute
            /\ deliveries[i].meter \in DOMAIN cycleLog
            /\ deliveries[i].fields # EmptyMap
            /\ deliveries[i].fields =
                   Part(cycleLog[deliveries[i].meter].reading, MINUTE_INTERVAL_PARAMS)

\* C2 as stated: once a cycle has served a minute boundary, every device with
\* minute-boundary parameters has had them delivered exactly once for that
\* boundary, never zero times and never twice, and each such delivery holds the
\* minute fields of its own cycle.
C2_ExactlyOncePerBoundary ==
    /\ \A key \in DOMAIN minuteSent : minuteSent[key] <= 1
    /\ MinuteDeliveriesAreOfTheirCycle
    /\ (pc = "cycle" /\ last_minute_storage > 0) =>
           \A m \in MeterNames :
               HasMinuteParams(m) => MinuteCount(m, last_minute_storage) = 1

\* C2 as amended: for every device and minute boundary the minute-boundary
\* parameters are delivered at most once; in a cycle that serves a boundary they
\* are delivered exactly once for a device whose Reading was accepted and holds a
\* minute field, and not at all for any other device; each such delivery holds
\* the minute fields of its own cycle.
C2_AtMostOncePerBoundary ==
    /\ \A key \in DOMAIN minuteSent : minuteSent[key] <= 1
    /\ MinuteDeliveriesAreOfTheirCycle
    /\ (pc \in {"meter", "end"} /\ read_minute_data) =>
           \A m \in DOMAIN cycleLog :
               MinuteCount(m, current_minute) =
                   IF /\ cycleLog[m].verdict = "accepted"
                      /\ DOMAIN cycleLog[m].reading \cap MINUTE_INTERVAL_PARAMS # {}
                   THEN 1 ELSE 0
    /\ (pc \in {"meter", "end"} /\ ~read_minute_data) =>
           \A m \in MeterNames : MinuteCount(m, current_minute) <= 1

\* a later cycle in a minute already served delivers the instant fields of M1
\* and leaves its one minute delivery alone
C2_Witness ==
    /\ pc = "end"
    /\ cycles = 2
    /\ ~read_minute_data
    /\ MinuteCount("M1", current_minute) = 1
    /\ Len(DeliveriesOf("M1")) = 1

\* value lies within the inclusive range [min_val, max_val]
InRange(value, min_val, max_val) ==
    value.k = "num" /\ min_val <= value.m /\ value.m <= max_val

\* C4: a Reading is accepted if and only if every present field that has a bound
\* lies within its inclusive range, and nothing is delivered for a device whose
\* Reading is rejected.
C4_AcceptedIffInRange ==
    \A m \in DOMAIN cycleLog :
        LET rd == cycleLog[m].reading
        IN  cycleLog[m].verdict # "empty" =>
              /\ (cycleLog[m].verdict = "accepted") <=>
                     \A n \in DOMAIN rd \cap DOMAIN VALIDATION_RANGES :
                         InRange(rd[n], VALIDATION_RANGES[n][1], VALIDATION_RANGES[n][2])
              /\ (cycleLog[m].verdict = "rejected" => DeliveriesOf(m) = <<>>)

\* C5: for a device whose Reading is accepted the cycle delivers the instant
\* fields stamped with the unix time of the cycle and, only when read_minute is
\* true, the minute fields as a separate delivery stamped with the minute
\* boundary, a multiple of 60; the two hold disjoint fields and no minute field
\* is delivered in a cycle whose read_minute is false.
C5_SplitDeliveries ==
    /\ \A m \in DOMAIN cycleLog :
         cycleLog[m].verdict = "accepted" =>
           LET rd == cycleLog[m].reading
               inst == DOMAIN rd \ MINUTE_INTERVAL_PARAMS
               minu == DOMAIN rd \cap MINUTE_INTERVAL_PARAMS
           IN  DeliveriesOf(m) =
                   (IF inst # {}
                    THEN <<[ts |-> unix_time, fields |-> Part(rd, inst)]>>
                    ELSE <<>>)
                   \o (IF minu # {} /\ read_minute_data
                       THEN <<[ts |-> current_minute, fields |-> Part(rd, minu)]>>
                       ELSE <<>>)
    /\ \A i \in 1 .. Len(deliveries) :
         /\ deliveries[i].kind = "minute" => deliveries[i].ts % 60 = 0
         /\ ~read_minute_data =>
                DOMAIN deliveries[i].fields \cap MINUTE_INTERVAL_PARAMS = {}
         /\ \A j \in 1 .. Len(deliveries) :
                (i # j /\ deliveries[i].meter = deliveries[j].meter) =>
                    DOMAIN deliveries[i].fields \cap DOMAIN deliveries[j].fields = {}

\* M1 is accepted in a minute cycle and gets both deliveries, with two
\* different timestamps
C5_Witness ==
    /\ read_minute_data
    /\ "M1" \in DOMAIN cycleLog
    /\ cycleLog["M1"].verdict = "accepted"
    /\ Len(DeliveriesOf("M1")) = 2
    /\ DeliveriesOf("M1")[1].ts # DeliveriesOf("M1")[2].ts
    /\ "Voltage" \in DOMAIN DeliveriesOf("M1")[1].fields

\* C6: when the reads of one device fail or its Reading is rejected, while the
\* connection itself is not lost, every device after it in the cycle is still
\* polled over the wire, and delivered when its own Reading is accepted.
C6_FailureIsConfined ==
    /\ pc = "end" => DOMAIN cycleLog = MeterNames
    /\ \A j \in 1 .. Len(arrayMeterName) :
         arrayMeterName[j] \in DOMAIN cycleLog =>
           /\ (\A i \in 1 .. j - 1 : /\ arrayMeterName[i] \in DOMAIN cycleLog
                                     /\ ~cycleLog[arrayMeterName[i]].lost)
                  => cycleLog[arrayMeterName[j]].reached
           /\ cycleLog[arrayMeterName[j]].verdict = "accepted"
                  => DeliveriesOf(arrayMeterName[j]) # <<>>

\* M1 is rejected and M2, after it, is read and delivered
C6_Witness ==
    /\ pc = "end"
    /\ cycleLog["M1"].verdict = "rejected"
    /\ cycleLog["M2"].verdict = "accepted"
    /\ cycleLog["M2"].reached
    /\ DeliveriesOf("M2") # <<>>

\* the first read of a group gave no data, or data from which no member decoded
FirstFailed(calls) == calls[1].outcome # "data" \/ ~calls[1].decoded

\* C7: a register group is read at most twice in a cycle, and the second read
\* is made exactly when the first gave no data or no decoded member.
C7_AtMostTwoReads ==
    \A g \in DOMAIN glog :
        /\ Len(glog[g]) \in {1, 2}
        /\ Len(glog[g]) = 2 => FirstFailed(glog[g])
        /\ g < gi => (Len(glog[g]) = 2 <=> FirstFailed(glog[g]))

\* of the two groups of M1 one was read once and one twice, the second time
\* after data from which no member decoded
C7_Witness ==
    /\ gi = 3
    /\ Len(glog[1]) = 2
    /\ glog[1][1].outcome = "data"
    /\ Len(glog[2]) = 1

----------------------------------------------------------------------------
\* Properties of the frame reader (SpecFrame)

\* the latest call got a whole header that carries its transaction id and
\* announces a body of n bytes
MatchingHeader(n) ==
    /\ last.sent
    /\ rx.arrived >= 7
    /\ rx.wire[1] * 256 + rx.wire[2] = last.tid
    /\ rx.wire[5] * 256 + rx.wire[6] = n + 1

\* C11: after a header with a matching transaction id that announces N >= 1
\* bytes the call takes exactly N more bytes and leaves what follows on the
\* stream; when fewer than N come in time it takes those and returns no data.
C11_ReadsExactlyTheBody ==
    \A n \in 1 .. MaxBody + 1 :
        MatchingHeader(n) =>
            /\ rx.arrived - 7 >= n =>
                   /\ last.consumed = 7 + n
                   /\ stream = Drop(rx.wire, 7 + n)
            /\ rx.arrived - 7 < n =>
                   /\ ~last.ret.ok
                   /\ last.consumed = rx.arrived
                   /\ stream = Drop(rx.wire, rx.arrived)

\* a body of 3 bytes was read whole and returned while bytes after it stayed
C11_Witness ==
    /\ MatchingHeader(3)
    /\ last.ret.ok
    /\ last.consumed = 10
    /\ Len(stream) > 0
    /\ rx.arrived > 10

\* of a body of 4 only 2 bytes came in time
C11_WitnessShort ==
    /\ MatchingHeader(4)
    /\ rx.arrived = 9
    /\ ~last.ret.ok

----------------------------------------------------------------------------
\* The end-to-end scenario on meter M2 (Spec)

\* the Reading Voltage 230.0, Current 10.0
Reading230_10 == ("Voltage" :> Num(230000)) @@ ("Current" :> Num(10000))

\* C12: for Voltage at 100 and Current at 102 the planner yields the one group
\* start 100, count 4 with the members at registers 0 and 2; from the reply
\* bytes 43 66 00 00 41 20 00 00 (hex) the group decodes to Voltage 230.0 and
\* Current 10.0; that Reading is accepted and makes exactly one delivery, of
\* both fields at the unix time of the cycle, also when read_minute is true.
C12_EndToEnd ==
    /\ Len(logged["M2"].register_groups) = 1
    /\ logged["M2"].register_groups[1].start_addr = 100
    /\ logged["M2"].register_groups[1].count = 4
    /\ [i \in 1 .. 2 |-> <<logged["M2"].register_groups[1].params[i].name,
                           logged["M2"].register_groups[1].params[i].offset>>]
           = << <<"Voltage", 0>>, <<"Current", 2>> >>
    /\ (/\ pc = "meter"
        /\ Meter = "M2"
        /\ gi = 2
        /\ glog[1][Len(glog[1])].data = <<67, 102, 0, 0, 65, 32, 0, 0>>)
           => readings = Reading230_10
    /\ ("M2" \in DOMAIN cycleLog /\ cycleLog["M2"].reading = Reading230_10)
           => /\ cycleLog["M2"].verdict = "accepted"
              /\ DeliveriesOf("M2") = <<[ts |-> unix_time, fields |-> Reading230_10]>>

\* the scenario in a cycle whose read_minute is true
C12_Witness ==
    /\ read_minute_data
    /\ "M2" \in DOMAIN cycleLog
    /\ cycleLog["M2"].reading = Reading230_10
    /\ Len(DeliveriesOf("M2")) = 1

----------------------------------------------------------------------------
\* Delivery failures (Spec)

\* the places in deliveries of the deliveries of the given kind for meter m
DeliveryIndexes(m, kind) ==
    { i \in 1 .. Len(deliveries) : deliveries[i].meter = m /\ deliveries[i].kind = kind }

\* C13: each instant or minute delivery of a device is attempted at most once
\* in a cycle, whether or not it succeeds; a failed instant delivery is followed
\* by the minute delivery of the same device when one is due; and the devices
\* after a failed delivery are still read and their accepted Readings delivered.
C13_DeliveryFailureIsNotFatal ==
    /\ \A m \in MeterNames : \A kind \in {"instant", "minute"} :
           Cardinality(DeliveryIndexes(m, kind)) <= 1
    /\ \A i \in 1 .. Len(deliveries) :
           LET m == deliveries[i].meter
           IN  (/\ deliveries[i].kind = "instant"
                /\ ~deliveries[i].ok
                /\ read_minute_data
                /\ DOMAIN cycleLog[m].reading \cap MINUTE_INTERVAL_PARAMS # {})
                   => /\ i < Len(deliveries)
                      /\ deliveries[i + 1].meter = m
                      /\ deliveries[i + 1].kind = "minute"
    /\ (\E i \in 1 .. Len(deliveries) : ~deliveries[i].ok) =>
           /\ pc \in {"meter", "end"}
           /\ pc = "end" => DOMAIN cycleLog = MeterNames
           /\ \A m \in DOMAIN cycleLog :
                  cycleLog[m].verdict = "accepted" => DeliveriesOf(m) # <<>>

\* the instant delivery of M1 failed, its minute delivery was made all the
\* same, and M2 was read and delivered after them
C13_Witness ==
    /\ pc = "end"
    /\ Len(deliveries) = 3
    /\ deliveries[1].meter = "M1" /\ deliveries[1].kind = "instant" /\ ~deliveries[1].ok
    /\ deliveries[2].meter = "M1" /\ deliveries[2].kind = "minute"
    /\ deliveries[3].meter = "M2"

----------------------------------------------------------------------------
\* Properties of the process (SpecProcess)

\* C14: a configuration input that fails to load stops the process at the
\* first failure: no load is tried again and main() is not restarted.
C14_LoadFailureIsFatal ==
    status_error > 0 => ppc = "exited"

\* C15: no socket is let go without close(), and when the process has exited
\* the client holds no socket.
C15_EverySocketClosed ==
    /\ dropped = 0
    /\ ppc = "exited" => ~sock

C18_TerminatesWhenBroken ==
    <>(is_open(Client) \/ ppc = "exited")

----------------------------------------------------------------------------
\* Reconnection, the marker and the two tasks (Spec)

\* C16: a cycle that starts without a connection first tries to connect; when
\* that fails no device is polled, nothing is delivered, the marker stays and
\* the loop is back at the head of a cycle; the first read of a cycle is made
\* on an open connection.
C16_ConnectBeforePolling ==
    /\ []((pc = "meter" /\ mi = 1 /\ glog = EmptyMap) => is_open(Client))
    /\ [][(pc = "cycle" /\ ~is_open(Client) /\ cycles' = cycles + 1) =>
            IF is_open(Client')
            THEN pc' = "meter" /\ transaction_id' = 0
            ELSE /\ pc' = "cycle"
                 /\ transaction_id' = 0
                 /\ UNCHANGED <<last_minute_storage, deliveries, minuteSent, cycleLog,
                                glog, unix_time, current_minute, read_minute_data>>]_vars

\* the first cycle failed to connect, the second connected and polls
C16_Witness ==
    /\ cycles = 2
    /\ pc = "meter"
    /\ is_open(Client)
    /\ last_minute_storage = 0
    /\ minuteSent = EmptyMap
    /\ unix_time = StartTime

\* C19: the marker changes only at the end of a cycle whose read_minute is
\* true and then becomes the unix time of the cycle floored to the minute; it
\* is a multiple of 60 and never decreases; read_minute of a cycle is true
\* exactly when the floored minute of the cycle is greater than the marker.
C19_MarkerDiscipline ==
    /\ [](last_minute_storage % 60 = 0)
    /\ []((pc \in {"meter", "end"}) =>
             /\ current_minute = unix_time - (unix_time % 60)
             /\ read_minute_data <=> (current_minute > last_minute_storage))
    /\ [][last_minute_storage' >= last_minute_storage]_vars
    /\ [][last_minute_storage' # last_minute_storage =>
            /\ pc = "end" /\ pc' = "cycle"
            /\ read_minute_data
            /\ last_minute_storage' = unix_time - (unix_time % 60)]_vars
    /\ [][(pc = "end" /\ pc' = "cycle" /\ read_minute_data) =>
            last_minute_storage' = unix_time - (unix_time % 60)]_vars

\* the marker was advanced by the first cycle and the second cycle, a minute
\* later, is to advance it again
C19_Witness ==
    /\ pc = "end"
    /\ last_minute_storage > 0
    /\ read_minute_data
    /\ current_minute = last_minute_storage + 60
    /\ unix_time > current_minute

\* a step of the health-check task
HealthStep == hpc' # hpc

\* C20: no step of the health-check task changes the connection, the
\* transaction counter or the marker, wherever the poll task is.
C20_HealthCheckWritesNothing ==
    [][HealthStep => UNCHANGED <<sock, connected, transaction_id, last_minute_storage>>]_vars

\* the health-check task has made a check and sleeps while the poll task is
\* between two reads of a group, with the connection open, requests sent and
\* the marker set
C20_Witness ==
    /\ hpc = "sleep"
    /\ attempt = 1
    /\ pc = "meter"
    /\ is_open(Client)
    /\ transaction_id > 0
    /\ last_minute_storage > 0

----------------------------------------------------------------------------
\* The session: reads without a socket, the counter, exception frames

\* a step that is a read_registers call
ReadStep == reads' = reads + 1

\* C21: read_registers on a Disconnected session returns no data, sends
\* nothing, leaves the transaction counter and leaves the session
\* Disconnected; a session becomes Connected only by connect().
C21_ReadWhenDisconnected ==
    /\ [][(ReadStep /\ ~is_open(Client)) =>
            /\ ~last'.ret.ok
            /\ ~last'.sent
            /\ last'.request = <<>>
            /\ transaction_id' = transaction_id
            /\ ~is_open(Client')]_vars
    /\ [][(~is_open(Client) /\ is_open(Client')) =>
            /\ ~ReadStep
            /\ last' = last
            /\ transaction_id' = 0]_vars

\* two reads were made on a session that was closed after its first request
C21_Witness ==
    /\ reads = 2
    /\ ~is_open(Client)
    /\ ~last.wasOpen
    /\ last.outcome = "no_sock"
    /\ transaction_id = 1

\* the two bytes of a request that carry its transaction id
RequestTid(request) == request[1] * 256 + request[2]

\* C22: the counter is in 0..65535; every read_registers call on a session
\* that holds a socket moves it to the next value modulo 65536 (1 after a
\* connect, 0 after 65535) and the request of the call carries that value; on
\* a session that stays open the counter moves only with a request sent, and
\* nothing else moves it but the making of a new session, which sets it to 0.
C22_TransactionCounter ==
    /\ [](transaction_id \in 0 .. 65535)
    /\ [][(ReadStep /\ sock) =>
            /\ transaction_id' = (transaction_id + 1) % 65536
            /\ (last'.sent => RequestTid(last'.request) = transaction_id')
            /\ (is_open(Client') => last'.sent)]_vars
    /\ [][transaction_id' # transaction_id =>
            \/ ReadStep /\ sock
            \/ ~ReadStep /\ ~is_open(Client) /\ transaction_id' = 0]_vars

\* the request after the one numbered 65535 was sent with the number 0
C22_Witness ==
    /\ last.sent
    /\ last.request[1] = 0
    /\ last.request[2] = 0
    /\ transaction_id = 0
    /\ reads = 2
    /\ is_open(Client)

\* C23: after a response whose function-code byte has its high bit set,
\* read_registers has returned no data and the session is Disconnected.
C23_ExceptionDisconnects ==
    last.outcome = "exception" => (~last.ret.ok /\ ~last.openAfter)

\* C27: the session holds a socket exactly when it is marked connected, so
\* it is open exactly when it holds a socket; a read on a session that is not
\* open touches no socket.
C27_SocketIffConnected ==
    /\ [](sock <=> connected)
    /\ [](is_open(Client) <=> sock)
    /\ [][(ReadStep /\ ~is_open(Client)) =>
            /\ last'.outcome = "no_sock"
            /\ ~last'.sent
            /\ rx' = NoWire
            /\ stream' = stream]_vars

\* a read was made after a connect that failed
C27_Witness ==
    /\ reads = 1
    /\ last.outcome = "no_sock"
    /\ ~sock
    /\ ~connected
    /\ transaction_id = 0

----------------------------------------------------------------------------
\* The decoder and the members of a group (SpecDecode)

\* the digits are a permutation of the positions 1 .. w
IsPermutation(digits, w) ==
    /\ Len(digits) = w
    /\ { digits[i] : i \in 1 .. w } = 1 .. w

\* C25: for a span of 2, 4 or 8 bytes and a permutation of that many 1-based
\* positions, byte i of the reordered buffer is the input byte at position
\* permutation[i]; "3412" on 00 00 43 65 gives 43 65 00 00; a permutation
\* string shorter than the width leaves the input order.
C25_Reordered ==
    (dc_pc = "span" /\ Len(dc_data) \in {2, 4, 8}) =>
        LET w == Len(dc_data)
            digits == DigitsOf(dc_endian)
        IN  /\ IsPermutation(digits, w) =>
                 \A i \in 1 .. w : dc_reordered[i] = dc_data[digits[i]]
            /\ Len(digits) < w => dc_reordered = dc_data
            /\ (dc_data = <<0, 0, 67, 101>> /\ dc_endian = 3412) =>
                 dc_reordered = <<67, 101, 0, 0>>

\* the worked example, decoded as a float
C25_Witness ==
    /\ dc_pc = "span"
    /\ dc_data = <<0, 0, 67, 101>>
    /\ dc_endian = 3412
    /\ dc_type = "float"
    /\ dc_reordered = <<67, 101, 0, 0>>
    /\ dc_value = Num(229000)

\* an input parse_register_data is to refuse: an empty span, a float on fewer
\* than 4 bytes, a signed integer on a width other than 1, 2 or 4, or a
\* permutation that names a position outside the span
Malformed(data, datatype, endian) ==
    \/ data = <<>>
    \/ datatype = "float" /\ Len(data) < 4
    \/ datatype = "sint" /\ Len(data) \notin {1, 2, 4}
    \/ /\ Len(data) \in {2, 4, 8}
       /\ Len(DigitsOf(endian)) >= Len(data)
       /\ \E i \in 1 .. Len(data) : DigitsOf(endian)[i] \notin 1 .. Len(data)

\* C26: parse_register_data returns the sentinel for every malformed input.
C26_MalformedGivesSentinel ==
    (dc_pc = "span" /\ Malformed(dc_data, dc_type, dc_endian)) => dc_value = Sentinel

\* the bytes of member p in the data of a group reply
MemberSlice(data, p) == Slice(data, p.offset * 2, p.offset * 2 + p.size * 2)

\* C24: every member of the group has a result; a member whose slice is
\* short is null; the result of a member is the same in every reply that has
\* the same bytes in its slice, whatever the slices of its siblings hold; the
\* Reading takes exactly the members that are not null, with their values.
C24_SiblingsIndependent ==
    dc_pc = "group" =>
        LET params == dc_group.params
            rd == MergeReadings(EmptyMap, dc_results)
        IN  /\ DOMAIN dc_results = { params[k].name : k \in 1 .. Len(params) }
            /\ \A k \in 1 .. Len(params) :
                 LET p == params[k]
                     own == MemberSlice(dc_data, p)
                 IN  /\ Len(own) < p.size * 2 => dc_results[p.name] = NoValue
                     /\ \A other \in DecGroupDatas :
                          MemberSlice(other, p) = own =>
                             ParseMembers(other, params, 1, EmptyMap)[p.name]
                                = dc_results[p.name]
            /\ DOMAIN rd = { n \in DOMAIN dc_results : dc_results[n] # NoValue }
            /\ \A n \in DOMAIN rd : rd[n] = dc_results[n]

\* the first member failed to decode, the last has a short slice, and the
\* one between them has its value
C24_Witness ==
    /\ dc_pc = "group"
    /\ Len(dc_data) = 9
    /\ dc_results["Voltage"] = NoValue
    /\ dc_results["Power Factor"] = Num(999000)
    /\ dc_results["Serial Number"] = NoValue

\* C28: a member whose slice in the reply has its full width has a value.
C28_FullSliceGivesValue ==
    dc_pc = "group" =>
        \A k \in 1 .. Len(dc_group.params) :
            LET p == dc_group.params[k]
            IN  Len(MemberSlice(dc_data, p)) = p.size * 2 => dc_results[p.name] # NoValue

----------------------------------------------------------------------------
\* A session lost in the middle of a cycle (Spec)

\* a step that reads a group
GroupReadStep == pc = "meter" /\ pc' = "meter" /\ glog' # glog /\ glog' # EmptyMap

\* C29: a session that is Disconnected becomes Connected only at the head of
\* a cycle; a group read made while it is Disconnected sends nothing (it ends
\* at the socket test), leaves the counter, gives no data and leaves the
\* session Disconnected; a device first read after the loss has an empty
\* Reading, and a device with an empty Reading has no delivery.
C29_NoReconnectWithinCycle ==
    /\ [][(~is_open(Client) /\ is_open(Client')) => (pc = "cycle" /\ pc' = "meter")]_vars
    /\ [][(GroupReadStep /\ ~is_open(Client)) =>
            /\ glog'[gi][Len(glog'[gi])].outcome = "no_sock"
            /\ ~glog'[gi][Len(glog'[gi])].decoded
            /\ transaction_id' = transaction_id
            /\ readings' = readings
            /\ ~is_open(Client')]_vars
    /\ [](\A m \in DOMAIN cycleLog :
             /\ ~cycleLog[m].reached => cycleLog[m].reading = EmptyMap
             /\ cycleLog[m].reading = EmptyMap => DeliveriesOf(m) = <<>>)

\* the session was lost at the second group of M1, after the first had given
\* its values; M2 was not reached, has no Reading and no delivery
C29_Witness ==
    /\ pc = "end"
    /\ cycleLog["M1"].lost
    /\ cycleLog["M1"].reading # EmptyMap
    /\ DeliveriesOf("M1") # <<>>
    /\ ~cycleLog["M2"].reached
    /\ cycleLog["M2"].reading = EmptyMap
    /\ DeliveriesOf("M2") = <<>>
    /\ ~is_open(Client)


----------------------------------------------------------------------------
\* Properties of the session at the pace of the poll loop (SpecLate)

\* C30: once the gateway answers every request within the timeout and the
\* session stays connected, a read_registers call returns data: replies left
\* over from earlier requests do not make every later call fail
C30_DataAfterLateReply == (lt_good /\ is_open(Client)) ~> lt_gotData

\* a call met a reply left over from a request that had timed out, and a later
\* call returned data
C30_Witness ==
    /\ lt_good
    /\ lt_stale
    /\ lt_gotData
    /\ last.outcome = "data"
    /\ is_open(Client)

====
